---- MODULE Spec2Model ----
(***************************************************************************)
(* A model of the Steam extension's cache engine: cache.json on disk, the  *)
(* merge of collector records into it (cache.py), the usage statistics     *)
(* written by the action dispatcher (enter.py), the parsing of the         *)
(* "launched" field and the list of items query_cache makes of the cache,  *)
(* filters by the search and ranks (query.py).                             *)
(*                                                                         *)
(* Representation.                                                         *)
(*  - A Python dict is a function whose DOMAIN is its key set.             *)
(*  - An optional value (x | None) is a sequence of length <= 1:           *)
(*    None is << >> and x is <<x>>.                                        *)
(*  - A "launched" value is the list str(value).split("x") of its integer  *)
(*    parts: <<ts>> for TIMESTAMP, <<ts, n>> for "TIMESTAMPxTIMES"; JSON   *)
(*    null is << >>.                                                       *)
(*  - A datetime is the instant it denotes, in whole seconds.              *)
(*  - A text that is searched or compared is the sequence of its           *)
(*    characters; a metric is an exact fraction <<numerator,               *)
(*    denominator>>.                                                       *)
(*  - An ordered dict handed to merge_dictionaries is a sequence of        *)
(*    [k |-> key, v |-> optional value] in insertion order.                *)
(***************************************************************************)
EXTENDS Integers, Sequences, FiniteSets, TLC

None == << >>

Some(x) == <<x>>

Put(f, k, v) == [x \in (DOMAIN f) \cup {k} |-> IF x = k THEN v ELSE f[x]]

Del(f, k) == [x \in (DOMAIN f) \ {k} |-> f[x]]

EmptyDict == [x \in {} |-> 0]

(***************************************************************************)
(* The characters of the dictionary keys the model uses.  Python unpacks   *)
(* a str target "key, value = s" into its characters.                      *)
(***************************************************************************)
KeyChars ==
  [ name     |-> <<"n", "a", "m", "e">>,
    dir      |-> <<"d", "i", "r">>,
    exe      |-> <<"e", "x", "e">>,
    size     |-> <<"s", "i", "z", "e">>,
    updated  |-> <<"u", "p", "d", "a", "t", "e", "d">>,
    launched |-> <<"l", "a", "u", "n", "c", "h", "e", "d">>,
    playtime |-> <<"p", "l", "a", "y", "t", "i", "m", "e">>,
    id       |-> <<"i", "d">>,
    i        |-> <<"i">>,
    icon_hash |-> <<"i", "c", "o", "n", "_", "h", "a", "s", "h">>,
    created  |-> <<"c", "r", "e", "a", "t", "e", "d">>,
    real_name |-> <<"r", "e", "a", "l", "_", "n", "a", "m", "e">>,
    since    |-> <<"s", "i", "n", "c", "e">>,
    a        |-> <<"a">>,
    ab       |-> <<"a", "b">> ]

(***************************************************************************)
(* cache.py, datetime_to_timestamp: floor(dt.timestamp()), with the        *)
(* current time when dt is None.                                           *)
(***************************************************************************)
datetime_to_timestamp(dt, clock) == IF dt = None THEN clock ELSE dt[1]

(***************************************************************************)
(* query.py, timestamp_to_datetime: the UTC datetime of the timestamp,     *)
(* moved by the local UTC offset; the instant it denotes is ts + offset.   *)
(***************************************************************************)
timestamp_to_datetime(timestamp, utcoffset) == timestamp + utcoffset

(***************************************************************************)
(* query.py, get_launches: (last launched, times launched) of an item      *)
(* dictionary.                                                             *)
(***************************************************************************)
get_launches(info, utcoffset) ==
  IF "launched" \notin DOMAIN info \/ info["launched"] = None
  THEN [launched |-> None, times |-> 0]
  ELSE LET launched_split == info["launched"]
       IN IF Len(launched_split) >= 3
          THEN [launched |-> None, times |-> 0]
          ELSE [launched |-> Some(timestamp_to_datetime(launched_split[1], utcoffset)),
                times |-> IF Len(launched_split) = 2 THEN launched_split[2] ELSE 0]

(***************************************************************************)
(* cache.py, build_cache.return_launches: the "launched" value to store,   *)
(* from the cached value and the collector's last-played datetime.         *)
(***************************************************************************)
return_launches(old_launched, new_launched, clock) ==
  IF old_launched = None
  THEN <<datetime_to_timestamp(new_launched, clock)>>
  ELSE IF new_launched = None
       THEN old_launched
       ELSE IF new_launched[1] > old_launched[1]
            THEN IF Len(old_launched) = 2
                 THEN <<datetime_to_timestamp(new_launched, clock), old_launched[2]>>
                 ELSE <<datetime_to_timestamp(new_launched, clock)>>
            ELSE old_launched

(***************************************************************************)
(* The rules build_cache passes to merge_dictionaries, by key: each takes  *)
(* the old and the new value and returns the value to set, or None.        *)
(***************************************************************************)
ApplyRule(key, old, value, clock) ==
  CASE key = "launched" ->
         LET r == return_launches(old, value, clock)
         IN IF r = None THEN None ELSE Some(r)
    [] key \in {"updated", "created"} ->
         IF value # None THEN Some(datetime_to_timestamp(value, clock)) ELSE Some(old)
    [] OTHER -> None

(***************************************************************************)
(* cache.py, merge_dictionaries.  The result is the source dictionary as   *)
(* the call leaves it and whether the call raised.  The second loop        *)
(* iterates update.keys() and unpacks each key string into (key, value).   *)
(***************************************************************************)
RECURSIVE DelIfNone(_, _, _)
DelIfNone(source, update, del_if_none) ==
  IF del_if_none = << >>
  THEN source
  ELSE LET key == Head(del_if_none)
           absent == \A j \in 1..Len(update) : update[j].k = key => update[j].v = None
       IN DelIfNone(IF key \in DOMAIN source /\ absent THEN Del(source, key) ELSE source,
                    update, Tail(del_if_none))

RECURSIVE MergeLoop(_, _, _, _, _)
MergeLoop(source, update, j, rules, clock) ==
  IF j > Len(update)
  THEN [src |-> source, raised |-> FALSE]
  ELSE LET chars == KeyChars[update[j].k]
       IN IF Len(chars) # 2
          THEN [src |-> source, raised |-> TRUE]
          ELSE LET key == chars[1]
                   value == chars[2]
               IN IF key \notin rules
                  THEN MergeLoop(Put(source, key, value), update, j + 1, rules, clock)
                  ELSE IF key \notin DOMAIN source
                       THEN [src |-> source, raised |-> TRUE]
                       ELSE LET new_value == ApplyRule(key, source[key], Some(value), clock)
                            IN MergeLoop(IF new_value # None
                                         THEN Put(source, key, new_value[1])
                                         ELSE source,
                                         update, j + 1, rules, clock)

merge_dictionaries(source, update, del_if_none, rules, clock) ==
  MergeLoop(DelIfNone(source, update, del_if_none), update, 1, rules, clock)

(***************************************************************************)
(* cache.json.  The cache dictionary maps section names to dictionaries;   *)
(* a dictionary of dictionaries is [d |-> the keys whose value is a        *)
(* dictionary, bad |-> the keys whose value is anything else].  The        *)
(* "extension" section is a plain dictionary of properties.  The file on   *)
(* disk either does not exist or holds a cache dictionary.                 *)
(***************************************************************************)
EmptyDicts == [d |-> EmptyDict, bad |-> {}]

NoFile == [exists |-> FALSE, c |-> EmptyDicts]

FileOf(cache) == [exists |-> TRUE, c |-> cache]

Keys(dicts) == (DOMAIN dicts.d) \cup dicts.bad

(***************************************************************************)
(* The decimal strings used as cache keys and the integers they denote     *)
(* (int(key), str(id)).                                                    *)
(***************************************************************************)
KeyInt == ("1" :> 1) @@ ("2" :> 2) @@ ("3" :> 3) @@ ("7" :> 7) @@ ("8" :> 8)

IsNumeric(key) == key \in DOMAIN KeyInt

StrOf(n) == CHOOSE key \in DOMAIN KeyInt : KeyInt[key] = n

(***************************************************************************)
(* cache.py, load_cache: the dictionary in cache.json, or an empty         *)
(* dictionary when the file does not exist.                                *)
(***************************************************************************)
load_cache(disk) == IF disk.exists THEN disk.c ELSE EmptyDicts

(***************************************************************************)
(* cache.py, save_cache: cache.json is rewritten with the dictionary.      *)
(***************************************************************************)
save_cache(cache) == FileOf(cache)

(***************************************************************************)
(* cache.py, ensure_dict_key_is_dict: the dictionary with dictionary[key]  *)
(* reset to an empty dictionary unless it already is a dictionary.  empty  *)
(* is the representation of {} for the kind of value stored at key.        *)
(***************************************************************************)
ensure_dict_key_is_dict(dictionary, key, empty) ==
  IF key \in DOMAIN dictionary.d
  THEN dictionary
  ELSE [d |-> Put(dictionary.d, key, empty), bad |-> dictionary.bad \ {key}]

WasDict(dictionary, key) == key \in DOMAIN dictionary.d

SetSection(cache, key, value) == [cache EXCEPT !.d = Put(cache.d, key, value)]

SetEntry(section, key, value) == [section EXCEPT !.d = Put(section.d, key, value)]

DelEntry(section, key) == [d |-> Del(section.d, key), bad |-> section.bad \ {key}]

(***************************************************************************)
(* cache.py, get_blacklist and str_to_timedelta are applied to the         *)
(* preferences by the caller of the model: a preferences record carries    *)
(* the parsed blacklists and the parsed refresh intervals in seconds.      *)
(***************************************************************************)
get_blacklist(type, preferences) ==
  IF type = "app" THEN preferences.APP_BLACKLIST ELSE preferences.FRIEND_BLACKLIST

wait_time(key, preferences) ==
  IF key = "files" THEN preferences.UPDATE_FILES ELSE preferences.UPDATE_STEAM_API

(***************************************************************************)
(* const.py, check_required_preferences: TRUE when every required          *)
(* preference is present; the code raises ValueError otherwise.            *)
(* REQUIRED_PREFERENCES are the preference ids of manifest.json, here the  *)
(* preferences the model reads.                                            *)
(***************************************************************************)
REQUIRED_PREFERENCES ==
  { "UPDATE_FILES", "UPDATE_STEAM_API", "APP_BLACKLIST", "FRIEND_BLACKLIST",
    "STEAM_USERNAME", "FRIEND_ACTION", "KEYWORD", "KEYWORD_APPS", "KEYWORD_FRIENDS",
    "KEYWORD_NAVIGATIONS", "KEYWORD_EXTENSION", "MAX_ITEMS", "SHOW_UNINSTALLED",
    "SHOW_DEPENDENT" }

check_required_preferences(preferences) ==
  REQUIRED_PREFERENCES \subseteq DOMAIN preferences

(***************************************************************************)
(* datetime.min, far below every timestamp of the model.                   *)
(***************************************************************************)
DatetimeMin == -50

(***************************************************************************)
(* cache.py, build_cache.compare_last_updated: whether the category is     *)
(* due.  A timestamp that cannot be parsed leaves updated_last at          *)
(* datetime.min.                                                           *)
(***************************************************************************)
compare_last_updated(extension, key, preferences, clock) ==
  IF key \notin DOMAIN extension
  THEN TRUE
  ELSE LET updated_last == IF extension[key] = None THEN DatetimeMin ELSE extension[key][1]
       IN updated_last + wait_time(key, preferences) < clock

(***************************************************************************)
(* get.py, get_non_steam_apps, lines 270-286: the records built from the   *)
(* scanned shortcuts (shortcut index -> dictionary of the tags found).     *)
(* A shortcut without "app_id" raises; a blacklisted one is skipped; one   *)
(* whose record cannot be built is logged and dropped.                     *)
(***************************************************************************)
NonSteamApp(app_info) ==
  << [k |-> "name", v |-> app_info["name"]],
     [k |-> "exe", v |-> app_info["exe"]],
     [k |-> "size", v |-> app_info["size"]],
     [k |-> "launched", v |-> app_info["launched"]] >>

NonSteamAppKeys == {"name", "exe", "size", "launched"}

get_non_steam_apps(shortcuts_dict, app_blacklist) ==
  IF \E sid \in DOMAIN shortcuts_dict : "app_id" \notin DOMAIN shortcuts_dict[sid]
  THEN [raised |-> TRUE, apps |-> EmptyDict]
  ELSE LET kept == {sid \in DOMAIN shortcuts_dict :
                       /\ shortcuts_dict[sid]["app_id"] \notin app_blacklist
                       /\ NonSteamAppKeys \subseteq DOMAIN shortcuts_dict[sid]}
           ids == {shortcuts_dict[sid]["app_id"] : sid \in kept}
           last_of(id) == CHOOSE sid \in kept :
                             /\ shortcuts_dict[sid]["app_id"] = id
                             /\ \A other \in kept :
                                  shortcuts_dict[other]["app_id"] = id => other <= sid
       IN [raised |-> FALSE,
           apps |-> [id \in ids |-> NonSteamApp(shortcuts_dict[last_of(id)])]]

(***************************************************************************)
(* get.py, get_installed_steam_apps: the records of the app manifests of   *)
(* one steamapps folder (app ID -> the values read from the manifest),     *)
(* without the blacklisted apps.                                           *)
(***************************************************************************)
InstalledSteamApp(manifest) ==
  << [k |-> "name", v |-> Some(manifest.name)],
     [k |-> "dir", v |-> Some(manifest.installdir)],
     [k |-> "size", v |-> Some(manifest.size)],
     [k |-> "updated", v |-> manifest.updated],
     [k |-> "launched", v |-> manifest.launched] >>

get_installed_steam_apps(manifests, app_blacklist) ==
  [id \in (DOMAIN manifests) \ app_blacklist |-> InstalledSteamApp(manifests[id])]

(***************************************************************************)
(* The merge of every record of a collector into a section, in ascending   *)
(* ID order: ensure_dict_key_is_dict on the entry, then merge_dictionaries.*)
(***************************************************************************)
RECURSIVE MergeAll(_, _, _, _, _, _)
Merged(section, key, m) == [sec |-> SetEntry(section, key, m.src), raised |-> m.raised]

MergeRest(r, records, ids, del_if_none, rules, clock) ==
  IF r.raised THEN r ELSE MergeAll(r.sec, records, ids, del_if_none, rules, clock)

MergeEntry(section, id, records, ids, del_if_none, rules, clock) ==
  MergeRest(Merged(section, StrOf(id),
                   merge_dictionaries(section.d[StrOf(id)], records[id], del_if_none, rules,
                                      clock)),
            records, ids, del_if_none, rules, clock)

MergeAll(section, records, ids, del_if_none, rules, clock) ==
  IF ids = {}
  THEN [sec |-> section, raised |-> FALSE]
  ELSE LET id == CHOOSE x \in ids : \A y \in ids : x <= y
       IN MergeEntry(ensure_dict_key_is_dict(section, StrOf(id), EmptyDict), id, records,
                     ids \ {id}, del_if_none, rules, clock)

(***************************************************************************)
(* cache.py, build_cache, lines 426-475: the non-Steam apps of the first   *)
(* Steam folder.  folder.shortcuts is "nodir" (no userdata folder),        *)
(* "nofile" (no shortcuts.vdf), "raise" (the scan raised) or "ok" with     *)
(* folder.shortcuts_dict.  The state is [cache, updated, raised].          *)
(***************************************************************************)
NonSteamPruned(sec, gone) ==
  [d |-> [key \in (DOMAIN sec.d) \ gone |-> sec.d[key]], bad |-> sec.bad \ gone]

NonSteamMerged(cache, merged) ==
  [cache |-> SetSection(cache, "nonSteam", merged.sec),
   updated |-> TRUE,
   raised |-> merged.raised]

NonSteamMerge(st, cache, existed, non_steam_apps, app_blacklist, clock) ==
  LET sec == cache.d["nonSteam"]
  IN IF existed /\ \E key \in Keys(sec) : ~IsNumeric(key)
     THEN [st EXCEPT !.raised = TRUE]
     ELSE NonSteamMerged(cache,
            MergeAll(NonSteamPruned(sec,
                       IF existed
                       THEN {key \in Keys(sec) : IsNumeric(key) /\
                               (KeyInt[key] \notin DOMAIN non_steam_apps
                                  \/ KeyInt[key] \in app_blacklist)}
                       ELSE {}),
                     non_steam_apps, DOMAIN non_steam_apps,
                     <<"exe", "size">>, {"launched"}, clock))

NonSteamApps(got) == IF got.raised THEN EmptyDict ELSE got.apps

NonSteamStep(st, folder, app_blacklist, clock) ==
  IF folder.shortcuts \in {"nodir", "nofile"}
  THEN st
  ELSE NonSteamMerge(st,
                     ensure_dict_key_is_dict(st.cache, "nonSteam", EmptyDicts),
                     WasDict(st.cache, "nonSteam"),
                     NonSteamApps(IF folder.shortcuts = "raise"
                                  THEN [raised |-> TRUE, apps |-> EmptyDict]
                                  ELSE get_non_steam_apps(folder.shortcuts_dict,
                                                          app_blacklist)),
                     app_blacklist, clock)

(***************************************************************************)
(* cache.py, build_cache, lines 476-530: the installed Steam apps of one   *)
(* Steam folder.  folder.scan is "raise" or "ok" with folder.manifests.    *)
(***************************************************************************)
InstalledStripped(sec, installed_steam_apps) ==
  [sec EXCEPT !.d = [key \in DOMAIN sec.d |->
                       IF /\ IsNumeric(key)
                          /\ KeyInt[key] \notin DOMAIN installed_steam_apps
                          /\ "size" \in DOMAIN sec.d[key]
                       THEN Del(sec.d[key], "size")
                       ELSE sec.d[key]]]

InstalledMerged(st, cache, installed_steam_apps, merged) ==
  [cache |-> SetSection(cache, "apps", merged.sec),
   updated |-> st.updated \/ (~merged.raised /\ DOMAIN installed_steam_apps # {}),
   raised |-> merged.raised]

InstalledMerge(st, cache, existed, installed_steam_apps, clock) ==
  InstalledMerged(st, cache, installed_steam_apps,
                  MergeAll(IF existed
                           THEN InstalledStripped(cache.d["apps"], installed_steam_apps)
                           ELSE cache.d["apps"],
                           installed_steam_apps, DOMAIN installed_steam_apps,
                           << >>, {"updated", "launched"}, clock))

InstalledStep(st, folder, app_blacklist, clock) ==
  InstalledMerge(st,
                 ensure_dict_key_is_dict(st.cache, "apps", EmptyDicts),
                 WasDict(st.cache, "apps"),
                 IF folder.scan = "raise"
                 THEN EmptyDict
                 ELSE get_installed_steam_apps(folder.manifests, app_blacklist),
                 clock)

(***************************************************************************)
(* cache.py, build_cache, lines 424-533: the loop over the Steam folders.  *)
(* The state is [cache, disk, updated, raised]: the dictionary in memory,  *)
(* cache.json, from_files_updated and whether an exception escaped.        *)
(***************************************************************************)
RECURSIVE FilesLoop(_, _, _, _, _)
FilesSaved(cache) ==
  [cache |-> cache, disk |-> save_cache(cache), updated |-> TRUE, raised |-> FALSE]

FolderDone(st, s, clock) ==
  IF s.raised
  THEN [st EXCEPT !.raised = TRUE]
  ELSE IF s.updated
       THEN FilesSaved(SetSection(s.cache, "extension",
                                  Put(s.cache.d["extension"], "files", Some(clock))))
       ELSE [cache |-> s.cache, disk |-> st.disk, updated |-> FALSE, raised |-> FALSE]

InstalledAfterNonSteam(s, folder, app_blacklist, clock) ==
  IF s.raised THEN s ELSE InstalledStep(s, folder, app_blacklist, clock)

FolderStep(s, steam_folder_index, folder, app_blacklist, clock) ==
  InstalledAfterNonSteam(IF steam_folder_index = 1
                         THEN NonSteamStep(s, folder, app_blacklist, clock)
                         ELSE s,
                         folder, app_blacklist, clock)

FilesLoop(st, steam_folders, steam_folder_index, app_blacklist, clock) ==
  IF st.raised \/ steam_folder_index > Len(steam_folders)
  THEN st
  ELSE FilesLoop(FolderDone(st,
                            FolderStep([cache |-> st.cache, updated |-> st.updated,
                                        raised |-> FALSE],
                                       steam_folder_index,
                                       steam_folders[steam_folder_index],
                                       app_blacklist, clock),
                            clock),
                 steam_folders, steam_folder_index + 1, app_blacklist, clock)

(***************************************************************************)
(* cache.py, build_cache, lines 590-592 (and 563-565, 620-622, 677-679,    *)
(* 710-712): when from_steam_api_updated is set, the steamApi timestamp    *)
(* is written and the cache is saved.  The state is [cache, disk].         *)
(***************************************************************************)
ApiSaved(cache) == [cache |-> cache, disk |-> save_cache(cache)]

SaveIfUpdated(st, from_steam_api_updated, clock) ==
  IF from_steam_api_updated
  THEN ApiSaved(SetSection(st.cache, "extension",
                           Put(st.cache.d["extension"], "steamApi", Some(clock))))
  ELSE st

(***************************************************************************)
(* The owned-apps step with each owned app's record rebuilt from the       *)
(* API's answer alone, the variant the frame property C11 excludes.        *)
(***************************************************************************)
OwnedStepRebuilds(st, api, clock) ==
  LET owned_steam_apps == api.owned
      cache1 == ensure_dict_key_is_dict(st.cache, "apps", EmptyDicts)
      sec == cache1.d["apps"]
      owned_keys == {StrOf(id) : id \in DOMAIN owned_steam_apps}
      sec1 == [d |-> [key \in (DOMAIN sec.d) \cup owned_keys |->
                        IF key \in owned_keys
                        THEN [name |-> owned_steam_apps[KeyInt[key]].name,
                              playtime |-> owned_steam_apps[KeyInt[key]].playtime]
                        ELSE sec.d[key]],
               bad |-> sec.bad \ owned_keys]
  IN SaveIfUpdated([cache |-> SetSection(cache1, "apps", sec1), disk |-> st.disk],
                   DOMAIN owned_steam_apps # {}, clock)

(***************************************************************************)
(* cache.py, build_cache, lines 567-593: the owned Steam apps.  api.owned  *)
(* is the dictionary get_owned_steam_apps returns (empty when the request  *)
(* failed).                                                                *)
(***************************************************************************)
OwnedStep(st, api, clock) ==
  LET owned_steam_apps == api.owned
      cache1 == ensure_dict_key_is_dict(st.cache, "apps", EmptyDicts)
      sec == cache1.d["apps"]
      entry(key) == IF key \in DOMAIN sec.d THEN sec.d[key] ELSE EmptyDict
      owned_keys == {StrOf(id) : id \in DOMAIN owned_steam_apps}
      sec1 == [d |-> [key \in (DOMAIN sec.d) \cup owned_keys |->
                        IF key \in owned_keys
                        THEN Put(Put(entry(key), "name", owned_steam_apps[KeyInt[key]].name),
                                 "playtime", owned_steam_apps[KeyInt[key]].playtime)
                        ELSE sec.d[key]],
               bad |-> sec.bad \ owned_keys]
  IN SaveIfUpdated([cache |-> SetSection(cache1, "apps", sec1), disk |-> st.disk],
                   DOMAIN owned_steam_apps # {}, clock)

(***************************************************************************)
(* cache.py, build_cache, lines 594-623: the friends list.  api.friends    *)
(* is the dictionary get_steam_friends_list returns (empty when the        *)
(* request failed).  The state is [cache, disk, raised].                   *)
(***************************************************************************)
Continued(saved) == [cache |-> saved.cache, disk |-> saved.disk, raised |-> FALSE]

FriendsListStep(st, api, friend_blacklist, clock) ==
  LET steam_friends_list == api.friends
      existed == WasDict(st.cache, "friends")
      cache1 == ensure_dict_key_is_dict(st.cache, "friends", EmptyDicts)
      sec == cache1.d["friends"]
      bad_key == existed /\ \E key \in Keys(sec) : ~IsNumeric(key)
      gone == IF existed
              THEN {key \in Keys(sec) : IsNumeric(key) /\
                      (KeyInt[key] \notin DOMAIN steam_friends_list
                         \/ KeyInt[key] \in friend_blacklist)}
              ELSE {}
      listed == {StrOf(id) : id \in (DOMAIN steam_friends_list) \ friend_blacklist}
      kept == (DOMAIN sec.d) \ gone
      sec1 == [d |-> [key \in kept \cup listed |->
                        IF key \in listed
                        THEN Put(IF key \in kept THEN sec.d[key] ELSE EmptyDict, "since",
                                 steam_friends_list[KeyInt[key]].since)
                        ELSE sec.d[key]],
               bad |-> (sec.bad \ gone) \ listed]
  IN IF bad_key
     THEN [cache |-> st.cache, disk |-> st.disk, raised |-> TRUE]
     ELSE Continued(SaveIfUpdated([cache |-> SetSection(cache1, "friends", sec1),
                                   disk |-> st.disk],
                                  gone # {} \/ DOMAIN steam_friends_list # {}, clock))

(***************************************************************************)
(* cache.py, build_cache, lines 624-712: the friends' profiles.  api.info  *)
(* is the dictionary get_steam_friends_info returns for the listed         *)
(* friends; the profiles of the model carry no location codes, so the      *)
(* countries section is only ensured.                                      *)
(***************************************************************************)
SteamFriendInfo(info) ==
  << [k |-> "name", v |-> info.name],
     [k |-> "icon_hash", v |-> info.icon_hash],
     [k |-> "updated", v |-> info.updated],
     [k |-> "real_name", v |-> info.real_name],
     [k |-> "created", v |-> info.created] >>

FriendsInfoMerged(st, cache, merged, from_steam_api_updated, clock) ==
  IF merged.raised
  THEN [cache |-> st.cache, disk |-> st.disk, raised |-> TRUE]
  ELSE Continued(SaveIfUpdated([cache |-> SetSection(cache, "friends", merged.sec),
                                disk |-> st.disk],
                               from_steam_api_updated, clock))

FriendsInfoMerge(st, cache, api, ids, clock) ==
  FriendsInfoMerged(st, cache,
                    MergeAll(cache.d["friends"],
                             [id \in ids |-> SteamFriendInfo(api.info[id])], ids, << >>,
                             {"icon_hash", "updated", "created"}, clock),
                    ids # {}, clock)

FriendsInfoStep(st, api, friend_blacklist, clock) ==
  FriendsInfoMerge(st,
                   ensure_dict_key_is_dict(st.cache, "countries", EmptyDicts),
                   api,
                   {id \in DOMAIN api.info : id \in DOMAIN api.friends} \ friend_blacklist,
                   clock)

(***************************************************************************)
(* get_steamid64 (imported by cache.py from get.py): the steamID64 of the  *)
(* user name, or None.  api.steamid is what the request returns.           *)
(***************************************************************************)
get_steamid64(api) == api.steamid

(***************************************************************************)
(* cache.py, build_cache, lines 534-720: the Steam API pass.  The result   *)
(* is [disk, raised, owned]: an early return (no steamID64) leaves         *)
(* cache.json as the files pass saved it; owned is the dictionary in       *)
(* memory before and after the owned-apps step, when the step ran.         *)
(***************************************************************************)
ApiReturn(s) == [disk |-> s.disk, raised |-> s.raised]

Owned(r, before, after) ==
  [disk |-> r.disk, raised |-> r.raised,
   owned |-> Some([before |-> before, after |-> after])]

ApiSkipped(disk) == [disk |-> disk, raised |-> FALSE, owned |-> None]

FriendsInfoAfterList(s, api, friend_blacklist, clock) ==
  IF s.raised
  THEN ApiReturn(s)
  ELSE ApiReturn(FriendsInfoStep(s, api, friend_blacklist, clock))

FriendsAfterOwned(s, o, api, friend_blacklist, clock) ==
  Owned(FriendsInfoAfterList(FriendsListStep(o, api, friend_blacklist, clock),
                             api, friend_blacklist, clock),
        s.cache, o.cache)

SteamApiSteps(s, api, friend_blacklist, clock) ==
  FriendsAfterOwned(s, OwnedStep(s, api, clock), api, friend_blacklist, clock)

SteamApiPass(cache, disk, api, preferences, clock) ==
  LET extension == cache.d["extension"]
      lookup == \/ "username" \notin DOMAIN extension
                \/ preferences.STEAM_USERNAME # extension["username"]
                \/ "id" \notin DOMAIN extension
      steamid64 == IF lookup THEN get_steamid64(api) ELSE Some(extension["id"])
  IN IF steamid64 = None
     THEN ApiSkipped(disk)
     ELSE SteamApiSteps(SaveIfUpdated([cache |-> SetSection(cache, "extension",
                                                  IF lookup
                                                  THEN Put(Put(extension, "username",
                                                               preferences.STEAM_USERNAME),
                                                           "id", steamid64[1])
                                                  ELSE extension),
                                       disk |-> disk],
                                      lookup, clock),
                        api, get_blacklist("friend", preferences), clock)

(***************************************************************************)
(* build_cache raising for a missing preference only after it has loaded   *)
(* the cache and rewritten cache.json with an "extension" section, the     *)
(* variant C19 excludes.                                                   *)
(***************************************************************************)
AbortedAfterSave(disk) ==
  [disk |-> save_cache(ensure_dict_key_is_dict(load_cache(disk), "extension", EmptyDict)),
   raised |-> TRUE, owned |-> None,
   update_from_files |-> FALSE, update_from_steam_api |-> FALSE,
   files_ran |-> FALSE, steam_api_ran |-> FALSE]

(***************************************************************************)
(* cache.py, build_cache.  env is what the collectors find: the Steam      *)
(* folders get_steam_folders returns, each with its shortcuts file and     *)
(* its manifests, and the Steam API's answers.  The result is cache.json   *)
(* after the call, whether the call raised, and the two decisions          *)
(* update_from_files and update_from_steam_api.                            *)
(***************************************************************************)
Aborted(disk) ==
  [disk |-> disk, raised |-> TRUE, owned |-> None,
   update_from_files |-> FALSE, update_from_steam_api |-> FALSE,
   files_ran |-> FALSE, steam_api_ran |-> FALSE]

BuildReturn(a, update_from_files, update_from_steam_api, force) ==
  [disk |-> a.disk, raised |-> a.raised, owned |-> a.owned,
   update_from_files |-> update_from_files,
   update_from_steam_api |-> update_from_steam_api,
   files_ran |-> update_from_files \/ force,
   steam_api_ran |-> update_from_steam_api \/ force]

ApiAfterFiles(f, update_from_files, update_from_steam_api, force, env, preferences, clock) ==
  IF f.raised
  THEN [disk |-> f.disk, raised |-> TRUE, owned |-> None,
        update_from_files |-> update_from_files,
        update_from_steam_api |-> update_from_steam_api,
        files_ran |-> TRUE, steam_api_ran |-> FALSE]
  ELSE BuildReturn(IF update_from_steam_api \/ force
                   THEN SteamApiPass(f.cache, f.disk, env.api, preferences, clock)
                   ELSE ApiSkipped(f.disk),
                   update_from_files, update_from_steam_api, force)

FilesThenApi(f0, update_from_files, update_from_steam_api, force, env, preferences, clock) ==
  ApiAfterFiles(IF update_from_files \/ force
                THEN FilesLoop(f0, env.steam_folders, 1,
                               get_blacklist("app", preferences), clock)
                ELSE f0,
                update_from_files, update_from_steam_api, force, env, preferences, clock)

BuildChecked(disk, preferences, force, env, clock) ==
  LET cache == load_cache(disk)
      compare == WasDict(cache, "extension") /\ ~force
  IN FilesThenApi([cache |-> ensure_dict_key_is_dict(cache, "extension", EmptyDict),
                   disk |-> disk, updated |-> FALSE, raised |-> FALSE],
                  IF compare
                  THEN compare_last_updated(cache.d["extension"], "files", preferences, clock)
                  ELSE TRUE,
                  IF compare
                  THEN compare_last_updated(cache.d["extension"], "steamApi", preferences,
                                            clock)
                  ELSE TRUE,
                  force, env, preferences, clock)

build_cache(disk, preferences, force, env, clock) ==
  IF check_required_preferences(preferences)
  THEN BuildChecked(disk, preferences, force, env, clock)
  ELSE Aborted(disk)

(***************************************************************************)
(* cache.py, clear_cache: os.remove of cache.json, which raises when the   *)
(* file does not exist.                                                    *)
(***************************************************************************)
clear_cache(disk) == [disk |-> NoFile, raised |-> ~disk.exists]

NoBuild ==
  [disk |-> NoFile, raised |-> FALSE, owned |-> None, update_from_files |-> FALSE,
   update_from_steam_api |-> FALSE, files_ran |-> FALSE, steam_api_ran |-> FALSE]

(***************************************************************************)
(* An action string is [s |-> prefix, arg |-> rest]: "APP" with the        *)
(* decimal app ID that ends "APPsteam://rungameid/<id>", "FRIEND" with     *)
(* the decimal steamID64, "s:" or "w:" with the navigation, or a bare      *)
(* action word with an empty rest.                                         *)
(***************************************************************************)
ActionString(action) == action.s \o action.arg

(***************************************************************************)
(* enter.py, execute_action, lines 40-131: the cache item the action       *)
(* refers to.  The result is [go, raised, cache, sec, key, force_cache]:   *)
(* go is "count" when the code reaches line 132 with cache_item =          *)
(* cache[sec][key], "return" when it returns before, "clear" and           *)
(* "rebuild" for the two executed maintenance actions.                     *)
(***************************************************************************)
Resolve(cache, action, preferences, execute, os_name) ==
  LET stop(how) == [go |-> how, raised |-> FALSE, cache |-> cache, sec |-> "",
                    key |-> "", force_cache |-> "false"]
      fail == [go |-> "return", raised |-> TRUE, cache |-> cache, sec |-> "",
               key |-> "", force_cache |-> "false"]
      item(sec, key) == IF key \in cache.d[sec].bad
                        THEN fail
                        ELSE [go |-> "count", raised |-> FALSE, cache |-> cache,
                              sec |-> sec, key |-> key, force_cache |-> "false"]
      nav(force_cache) ==
        LET cache1 == ensure_dict_key_is_dict(cache, "navs", EmptyDicts)
            navs == ensure_dict_key_is_dict(cache1.d["navs"], ActionString(action), EmptyDict)
        IN [go |-> "count", raised |-> FALSE, cache |-> SetSection(cache1, "navs", navs),
            sec |-> "navs", key |-> ActionString(action), force_cache |-> force_cache]
      found(sec, key) == sec \in DOMAIN cache.d /\ key \in Keys(cache.d[sec])
  IN CASE action.s = "APP" ->
            IF ~IsNumeric(action.arg) \/ "apps" \in cache.bad
            THEN fail
            ELSE IF found("apps", StrOf(KeyInt[action.arg]))
                 THEN item("apps", StrOf(KeyInt[action.arg]))
                 ELSE IF "nonSteam" \in cache.bad
                      THEN fail
                      ELSE IF found("nonSteam", StrOf(KeyInt[action.arg]))
                           THEN item("nonSteam", StrOf(KeyInt[action.arg]))
                           ELSE stop("return")
       [] action.s = "FRIEND" ->
            IF ~IsNumeric(action.arg) \/ "friends" \in cache.bad
            THEN fail
            ELSE IF found("friends", StrOf(KeyInt[action.arg]))
                 THEN IF execute /\ preferences.FRIEND_ACTION \notin {"chat", "profile"}
                      THEN stop("return")
                      ELSE item("friends", StrOf(KeyInt[action.arg]))
                 ELSE stop("return")
       [] action.s = "s:" -> nav("false")
       [] action.s = "w:" -> IF os_name = "nt" THEN nav("false") ELSE stop("return")
       [] action.s = "update_cache" /\ action.arg = "" ->
            nav(IF execute THEN "true" ELSE "false")
       [] action.s = "clear_cache" /\ action.arg = "" ->
            IF execute THEN stop("clear") ELSE nav("false")
       [] action.s = "clear_images" /\ action.arg = "" ->
            nav(IF execute THEN "skip" ELSE "false")
       [] action.s = "rebuild_cache" /\ action.arg = "" ->
            IF execute THEN stop("rebuild") ELSE nav("false")
       [] OTHER -> stop("return")

(***************************************************************************)
(* enter.py, execute_action.  The result is cache.json after the call,     *)
(* whether the call raised, whether line 137 was reached and the           *)
(* dictionary it saved, and the build the call ran, if any.                *)
(***************************************************************************)
Quiet(disk, raised) ==
  [disk |-> disk, raised |-> raised, counted |-> FALSE, saved |-> NoFile,
   built |-> FALSE, build |-> NoBuild]

Built(b, counted, saved) ==
  [disk |-> b.disk, raised |-> b.raised, counted |-> counted, saved |-> saved,
   built |-> TRUE, build |-> b]

Rebuild(cleared, preferences, env, clock) ==
  IF cleared.raised
  THEN Quiet(cleared.disk, TRUE)
  ELSE Built(build_cache(cleared.disk, preferences, FALSE, env, clock), FALSE, NoFile)

SaveThenBuild(saved, force_cache, preferences, execute, env, clock) ==
  IF execute /\ force_cache # "skip"
  THEN Built(build_cache(saved, preferences, force_cache = "true", env, clock), TRUE, saved)
  ELSE [disk |-> saved, raised |-> FALSE, counted |-> TRUE, saved |-> saved,
        built |-> FALSE, build |-> NoBuild]

CountLaunch(cache_item, l, clock) ==
  Put(cache_item, "launched", <<datetime_to_timestamp(l.launched, clock), l.times + 1>>)

Count(r, cache_item, preferences, execute, env, utcoffset, clock) ==
  SaveThenBuild(save_cache(SetSection(r.cache, r.sec,
                                      SetEntry(r.cache.d[r.sec], r.key,
                                               CountLaunch(cache_item,
                                                        get_launches(cache_item, utcoffset),
                                                        clock)))),
                r.force_cache, preferences, execute, env, clock)

Resolved(r, disk, preferences, execute, env, utcoffset, clock) ==
  CASE r.go = "return" -> Quiet(disk, r.raised)
    [] r.go = "clear" -> Quiet(clear_cache(disk).disk, clear_cache(disk).raised)
    [] r.go = "rebuild" -> Rebuild(clear_cache(disk), preferences, env, clock)
    [] OTHER -> Count(r, r.cache.d[r.sec].d[r.key], preferences, execute, env, utcoffset,
                      clock)

execute_action_rebuilding(disk, action, preferences, execute, env, os_name, utcoffset, clock) ==
  IF Resolve(load_cache(disk), action, preferences, execute, os_name).go = "return"
  THEN Built(build_cache(disk, preferences, FALSE, env, clock), FALSE, NoFile)
  ELSE Resolved(Resolve(load_cache(disk), action, preferences, execute, os_name),
                disk, preferences, execute, env, utcoffset, clock)

execute_action(disk, action, preferences, execute, env, os_name, utcoffset, clock) ==
  Resolved(Resolve(load_cache(disk), action, preferences, execute, os_name),
           disk, preferences, execute, env, utcoffset, clock)

(***************************************************************************)
(* Text.  query.py works on the characters of names, descriptions and the  *)
(* search text; a text is the sequence of its characters.  Chars gives     *)
(* the characters of the strings the model stores in cache.json, str(id)   *)
(* included; Upper is str.lower on the capitals they contain; Ord is ord() *)
(* on the characters that reach a comparison or a sum.                     *)
(***************************************************************************)
Chars ==
  [ Game1 |-> <<"G", "a", "m", "e", "1">>,
    Game3 |-> <<"G", "a", "m", "e", "3">>,
    Friend7 |-> <<"F", "r", "i", "e", "n", "d", "7">>,
    a |-> <<"a">>,
    dir1 |-> <<"d", "i", "r", "1">> ]
  @@ ("1" :> <<"1">>) @@ ("2" :> <<"2">>) @@ ("3" :> <<"3">>) @@ ("7" :> <<"7">>)
  @@ ("8" :> <<"8">>)
  @@ ("s:exit" :> <<"s", ":", "e", "x", "i", "t">>)
  @@ ("s:backup/" :> <<"s", ":", "b", "a", "c", "k", "u", "p", "/">>)
  @@ ("s:friends/message/" :>
        <<"s", ":", "f", "r", "i", "e", "n", "d", "s", "/", "m", "e", "s", "s", "a",
          "g", "e", "/">>)
  @@ ("w:help.steampowered.com" :>
        <<"w", ":", "h", "e", "l", "p", ".", "s", "t", "e", "a", "m", "p", "o", "w",
          "e", "r", "e", "d", ".", "c", "o", "m">>)
  @@ ("launch_" :> <<"l", "a", "u", "n", "c", "h", "_">>)
  @@ ("install_" :> <<"i", "n", "s", "t", "a", "l", "l", "_">>)
  @@ ("update_cache" :> <<"u", "p", "d", "a", "t", "e", "_", "c", "a", "c", "h", "e">>)
  @@ ("clear_cache" :> <<"c", "l", "e", "a", "r", "_", "c", "a", "c", "h", "e">>)
  @@ ("clear_images" :> <<"c", "l", "e", "a", "r", "_", "i", "m", "a", "g", "e", "s">>)
  @@ ("rebuild_cache" :>
        <<"r", "e", "b", "u", "i", "l", "d", "_", "c", "a", "c", "h", "e">>)
  @@ ("no_results" :> <<"n", "o", "_", "r", "e", "s", "u", "l", "t", "s">>)

Upper == ("G" :> "g") @@ ("F" :> "f") @@ ("A" :> "a")

lower(text) ==
  [i \in 1..Len(text) |-> IF text[i] \in DOMAIN Upper THEN Upper[text[i]] ELSE text[i]]

Ord ==
  (" " :> 32) @@ ("%" :> 37) @@ ("," :> 44) @@ ("." :> 46) @@ ("/" :> 47)
  @@ ("0" :> 48) @@ ("1" :> 49) @@ ("2" :> 50) @@ ("3" :> 51) @@ ("5" :> 53)
  @@ ("7" :> 55) @@ ("8" :> 56) @@ ("9" :> 57) @@ (":" :> 58)
  @@ ("A" :> 65) @@ ("B" :> 66) @@ ("F" :> 70) @@ ("G" :> 71) @@ ("J" :> 74)
  @@ ("_" :> 95)
  @@ ("a" :> 97) @@ ("b" :> 98) @@ ("c" :> 99) @@ ("d" :> 100) @@ ("e" :> 101)
  @@ ("f" :> 102) @@ ("g" :> 103) @@ ("h" :> 104) @@ ("i" :> 105) @@ ("k" :> 107)
  @@ ("l" :> 108) @@ ("m" :> 109) @@ ("n" :> 110) @@ ("o" :> 111) @@ ("p" :> 112)
  @@ ("r" :> 114) @@ ("s" :> 115) @@ ("t" :> 116) @@ ("u" :> 117) @@ ("w" :> 119)
  @@ ("x" :> 120)
  @@ ("|" :> 124)

(***************************************************************************)
(* str.find: the least index (from 0) at which word occurs in text, or -1; *)
(* "word in text" is find # -1.  The empty word occurs at 0.               *)
(***************************************************************************)
OccursAt(word, text, i) ==
  /\ i + Len(word) <= Len(text)
  /\ \A j \in 1..Len(word) : text[i + j] = word[j]

find(text, word) ==
  LET at == {i \in 0..Len(text) : OccursAt(word, text, i)}
  IN IF at = {} THEN -1 ELSE CHOOSE i \in at : \A j \in at : i <= j

(***************************************************************************)
(* str.strip and str.split() on the blank: the maximal runs of characters  *)
(* other than " ", in order.                                               *)
(***************************************************************************)
RECURSIVE SplitFrom(_, _, _)
SplitFrom(text, i, word) ==
  IF i > Len(text)
  THEN IF word = << >> THEN << >> ELSE <<word>>
  ELSE IF text[i] = " "
       THEN (IF word = << >> THEN << >> ELSE <<word>>) \o SplitFrom(text, i + 1, << >>)
       ELSE SplitFrom(text, i + 1, Append(word, text[i]))

split(text) == SplitFrom(text, 1, << >>)

RECURSIVE lstrip(_)
lstrip(text) ==
  IF text # << >> /\ Head(text) = " " THEN lstrip(Tail(text)) ELSE text

RECURSIVE rstrip(_)
rstrip(text) ==
  IF text # << >> /\ text[Len(text)] = " "
  THEN rstrip(SubSeq(text, 1, Len(text) - 1))
  ELSE text

strip(text) == rstrip(lstrip(text))

(***************************************************************************)
(* The order of Python on str: by the code points of the characters, a     *)
(* proper prefix first.                                                    *)
(***************************************************************************)
RECURSIVE StrLess(_, _)
StrLess(s, t) ==
  IF t = << >> THEN FALSE
  ELSE IF s = << >> THEN TRUE
       ELSE IF Ord[Head(s)] # Ord[Head(t)]
            THEN Ord[Head(s)] < Ord[Head(t)]
            ELSE StrLess(Tail(s), Tail(t))

(***************************************************************************)
(* query.py, get_lang_string.  lang.csv is not among the sources; the      *)
(* model takes the dictionary query_cache is left with when the file       *)
(* cannot be read (lines 496-505), the empty one: the string of a key is   *)
(* the key, and the strict lookup raises KeyError.                         *)
(***************************************************************************)
get_lang_string(key) == key

(***************************************************************************)
(* A day in ticks of the model's clock: timedelta.days is the number of    *)
(* whole days of a difference of two instants, rounded down.               *)
(***************************************************************************)
Day == 2

days(delta) == delta \div Day

(***************************************************************************)
(* The texts of the numbers and dates that reach a description:            *)
(* f"{playtime / 60:.1f} hrs", strftime("%b %d, %Y") of the day an         *)
(* instant falls on (day 0 is 1 January 1970), and the size in bytes       *)
(* below 1000.                                                             *)
(***************************************************************************)
HoursText == 9 :> <<"0", ".", "1", " ", "h", "r", "s">>

DateText ==
  (-1 :> <<"D", "e", "c", " ", "3", "1", ",", " ", "1", "9", "6", "9">>)
  @@ (0 :> <<"J", "a", "n", " ", "0", "1", ",", " ", "1", "9", "7", "0">>)
  @@ (1 :> <<"J", "a", "n", " ", "0", "2", ",", " ", "1", "9", "7", "0">>)
  @@ (2 :> <<"J", "a", "n", " ", "0", "3", ",", " ", "1", "9", "7", "0">>)
  @@ (3 :> <<"J", "a", "n", " ", "0", "4", ",", " ", "1", "9", "7", "0">>)

SizeText == 5 :> <<"5", " ", "B">>

(***************************************************************************)
(* query.py, SteamExtensionItem.  An item is a record of the attributes    *)
(* the queries read: type, id (None for an action or a navigation without  *)
(* a placeholder), non_steam, name with its characters in chars,           *)
(* display_name and description (texts or None), location, size,           *)
(* playtime, launched (an instant or None) and times.                      *)
(***************************************************************************)
SteamExtensionItem(type, id, non_steam, name, chars, display_name, description, location, size, playtime, l) ==
  [type |-> type, id |-> id, non_steam |-> non_steam, name |-> name, chars |-> chars,
   display_name |-> display_name, description |-> description, location |-> location,
   size |-> size, playtime |-> playtime, launched |-> l.launched, times |-> l.times]

(***************************************************************************)
(* query.py, SteamExtensionItem.get_name, lines 112-128.                   *)
(***************************************************************************)
get_name(item) == IF item.display_name # None THEN item.display_name[1] ELSE item.chars

(***************************************************************************)
(* query.py, SteamExtensionItem.get_description, lines 130-200.  The       *)
(* location text of an app's folder that has no parent folder is empty.    *)
(***************************************************************************)
add_divider(description) ==
  IF description # << >> THEN description \o <<" ", "|", " ">> ELSE description

WithSize(description, item) ==
  IF item.size > 0
  THEN (IF item.location # None
        THEN (IF description # << >> /\ description[Len(description)] = ":"
              THEN description
              ELSE Append(description, ":")) \o <<" ">>
        ELSE add_divider(description)) \o SizeText[item.size]
  ELSE description

WithLocation(description, item) ==
  WithSize(IF item.location # None THEN add_divider(description) ELSE description, item)

WithLaunched(description, item) ==
  WithLocation(IF item.launched # None
               THEN add_divider(description) \o DateText[days(item.launched[1])]
               ELSE description,
               item)

get_description(item) ==
  CASE item.type = "app" ->
         add_divider(WithLaunched(IF item.playtime > 0
                                  THEN HoursText[item.playtime]
                                  ELSE << >>,
                                  item))
           \o Chars[StrOf(item.id[1])]
    [] item.type = "friend" -> Chars[StrOf(item.id[1])]
    [] OTHER -> IF item.description # None THEN item.description[1] ELSE << >>

(***************************************************************************)
(* query.py, SteamExtensionItem.get_action, lines 215-232, as the action   *)
(* string execute_action takes: "APP" or "FRIEND" before the ID, and the   *)
(* name of a navigation or action as it is.  NavArgs are the navigations   *)
(* of the model after "s:" or "w:".                                          *)
(***************************************************************************)
NavArgs ==
  {"exit", "help.steampowered.com"} \cup {"backup/" \o key : key \in DOMAIN KeyInt}
           \cup {"friends/message/" \o key : key \in DOMAIN KeyInt}

get_action(item) ==
  CASE item.type = "app" -> [s |-> "APP", arg |-> StrOf(item.id[1])]
    [] item.type = "friend" -> [s |-> "FRIEND", arg |-> StrOf(item.id[1])]
    [] item.type = "nav" ->
         CHOOSE action \in [s : {"s:", "w:"}, arg : NavArgs] : ActionString(action) = item.name
    [] OTHER -> [s |-> item.name, arg |-> ""]

(***************************************************************************)
(* The order in which a loop of query_cache meets the numeric keys of a    *)
(* section: the order of the IDs, which is the order build_cache leaves    *)
(* in cache.json under CACHE_SORT.                                         *)
(***************************************************************************)
RECURSIVE KeyOrder(_)
KeyOrder(keys) ==
  IF keys = {}
  THEN << >>
  ELSE LET first == CHOOSE key \in keys : \A other \in keys : KeyInt[key] <= KeyInt[other]
       IN <<first>> \o KeyOrder(keys \ {first})

HasSection(cache, sec) == sec \in DOMAIN cache.d

(***************************************************************************)
(* query.py, query_cache, lines 541-598: the items of the Steam apps.      *)
(* The result is [items, raised]; int(app_id) of line 543 is outside the   *)
(* try and raises on a key that is not a number, and app_info["name"]      *)
(* raises on a record without a name.                                      *)
(***************************************************************************)
Get(info, key, default) == IF key \in DOMAIN info THEN info[key] ELSE default

AppShown(app_info, preferences) ==
  ~(preferences.SHOW_UNINSTALLED = "false"
      /\ "dir" \notin DOMAIN app_info /\ Get(app_info, "size", 0) = 0)

AppItem(key, app_info, utcoffset) ==
  SteamExtensionItem("app", Some(KeyInt[key]), FALSE, app_info["name"],
                     Chars[app_info["name"]],
                     Some(Chars[get_lang_string(IF "dir" \in DOMAIN app_info
                                                    \/ Get(app_info, "size", 0) > 0
                                                 THEN "launch_"
                                                 ELSE "install_")]
                            \o Chars[app_info["name"]]),
                     None,
                     IF "dir" \in DOMAIN app_info THEN Some(app_info["dir"]) ELSE None,
                     Get(app_info, "size", 0), Get(app_info, "playtime", 0),
                     get_launches(app_info, utcoffset))

(***************************************************************************)
(* The loop over the Steam apps without the test of the blacklist of       *)
(* lines 549-551, the variant C15 excludes.                                *)
(***************************************************************************)
AppItemsOfAll(sec, app_blacklist, preferences, utcoffset) ==
  LET taken == {key \in DOMAIN sec.d :
                  IsNumeric(key) /\ AppShown(sec.d[key], preferences)}
      order == KeyOrder(taken)
  IN IF \/ \E key \in Keys(sec) : ~IsNumeric(key)
        \/ \E key \in taken : "name" \notin DOMAIN sec.d[key]
     THEN [items |-> << >>, raised |-> TRUE]
     ELSE [items |-> [i \in 1..Len(order) |-> AppItem(order[i], sec.d[order[i]], utcoffset)],
           raised |-> FALSE]

AppItems(sec, app_blacklist, preferences, utcoffset) ==
  LET taken == {key \in DOMAIN sec.d :
                  /\ IsNumeric(key)
                  /\ KeyInt[key] \notin app_blacklist
                  /\ AppShown(sec.d[key], preferences)}
      order == KeyOrder(taken)
  IN IF \/ \E key \in Keys(sec) : ~IsNumeric(key)
        \/ \E key \in taken : "name" \notin DOMAIN sec.d[key]
     THEN [items |-> << >>, raised |-> TRUE]
     ELSE [items |-> [i \in 1..Len(order) |-> AppItem(order[i], sec.d[order[i]], utcoffset)],
           raised |-> FALSE]

(***************************************************************************)
(* query.py, query_cache, lines 599-642: the items of the non-Steam apps.  *)
(* A key that is not a number is skipped; an entry that is not a           *)
(* dictionary is logged and then indexed with "name" (line 614), which     *)
(* raises.                                                                 *)
(***************************************************************************)
NonSteamItem(key, app_info, utcoffset) ==
  SteamExtensionItem("app", Some(KeyInt[key]), TRUE, app_info["name"],
                     Chars[app_info["name"]],
                     Some(Chars[get_lang_string("launch_")] \o Chars[app_info["name"]]),
                     None,
                     IF "exe" \in DOMAIN app_info THEN Some(app_info["exe"]) ELSE None,
                     Get(app_info, "size", 0), 0,
                     get_launches(app_info, utcoffset))

NonSteamItems(sec, app_blacklist, utcoffset) ==
  LET met == {key \in Keys(sec) : IsNumeric(key) /\ KeyInt[key] \notin app_blacklist}
      order == KeyOrder(met)
  IN IF \E key \in met : key \in sec.bad \/ "name" \notin DOMAIN sec.d[key]
     THEN [items |-> << >>, raised |-> TRUE]
     ELSE [items |-> [i \in 1..Len(order) |->
                        NonSteamItem(order[i], sec.d[order[i]], utcoffset)],
           raised |-> FALSE]

(***************************************************************************)
(* query.py, query_cache, lines 643-716: the items of the friends.  A key  *)
(* that is not a number and an entry that is not a dictionary are          *)
(* skipped; a friend without a name is named by its ID.                    *)
(***************************************************************************)
FriendItem(key, friend_info, utcoffset) ==
  LET name == IF "name" \in DOMAIN friend_info THEN friend_info["name"] ELSE key
  IN SteamExtensionItem("friend", Some(KeyInt[key]), FALSE, name, Chars[name], None, None,
                        None, 0, 0, get_launches(friend_info, utcoffset))

FriendItems(sec, friend_blacklist, utcoffset) ==
  LET order == KeyOrder({key \in DOMAIN sec.d :
                           IsNumeric(key) /\ KeyInt[key] \notin friend_blacklist})
  IN [items |-> [i \in 1..Len(order) |-> FriendItem(order[i], sec.d[order[i]], utcoffset)],
      raised |-> FALSE]

(***************************************************************************)
(* const.py, STEAM_NAVIGATIONS, lines 91-200: an app navigation, a plain   *)
(* one, a friend navigation and a web page ("w:") of the list, in its      *)
(* order.  A navigation                                                    *)
(* is [head, modifier]: its name is head followed by modifier, "%a",       *)
(* "%f" or nothing, and name.replace(modifier, str(id)) is head followed   *)
(* by the ID.                                                              *)
(***************************************************************************)
STEAM_NAVIGATIONS ==
  << [head |-> "s:backup/", modifier |-> "%a"],
     [head |-> "s:exit", modifier |-> ""],
     [head |-> "s:friends/message/", modifier |-> "%f"],
     [head |-> "w:help.steampowered.com", modifier |-> ""] >>

StartsWith(text, prefix) ==
  Len(prefix) <= Len(text) /\ SubSeq(text, 1, Len(prefix)) = prefix

(***************************************************************************)
(* query.py, query_cache, lines 815-823: the loop assigns                  *)
(* skip_repeated_action for "friends/message/" and then again for          *)
(* "url/SteamIDPage/"; the last assignment is the one tested.              *)
(***************************************************************************)
skip_repeated_action(nav, preferences) ==
  /\ StartsWith(Chars[nav.head],
                <<"u", "r", "l", "/", "S", "t", "e", "a", "m", "I", "D", "P", "a", "g",
                  "e", "/">>)
  /\ preferences.FRIEND_ACTION = "profile"

(***************************************************************************)
(* query.py, query_cache, lines 740-868: the items of one navigation.      *)
(* navs is cache["navs"], empty when missing or not a dictionary.  The     *)
(* result is [items, raised].                                              *)
(***************************************************************************)
NavLaunches(navs, id_name, utcoffset) ==
  IF id_name \in DOMAIN navs.d
  THEN get_launches(navs.d[id_name], utcoffset)
  ELSE [launched |-> None, times |-> 0]

PlainNavItem(nav, navs, utcoffset) ==
  SteamExtensionItem("nav", None, FALSE, nav.head, Chars[nav.head],
                     Some(Chars[get_lang_string(nav.head)]), None, None, 0, 0,
                     NavLaunches(navs, nav.head, utcoffset))

DependentNavItem(nav, key, info, navs, utcoffset) ==
  SteamExtensionItem("nav", Some(KeyInt[key]), FALSE, nav.head \o key,
                     Chars[nav.head] \o Chars[key],
                     Some(Chars[get_lang_string(nav.head)]
                            \o Chars[Get(info, "name", key)]),
                     None, None, 0, 0,
                     NavLaunches(navs, nav.head \o key, utcoffset))

DependentNavItemsOfAll(nav, sec, blacklist, skipped, hide_uninstalled, navs, utcoffset) ==
  LET order == KeyOrder({key \in DOMAIN sec.d :
                           ~(hide_uninstalled /\ "location" \notin DOMAIN sec.d[key]
                                              /\ "size" \notin DOMAIN sec.d[key])})
  IN [items |-> [i \in 1..Len(order) |->
                   DependentNavItem(nav, order[i], sec.d[order[i]], navs, utcoffset)],
      raised |-> FALSE]

DependentNavItems(nav, sec, blacklist, skipped, hide_uninstalled, navs, utcoffset) ==
  LET met == {key \in Keys(sec) :
                IsNumeric(key) /\ KeyInt[key] \notin blacklist /\ ~skipped}
      order == KeyOrder({key \in met \ sec.bad :
                           ~(hide_uninstalled /\ "location" \notin DOMAIN sec.d[key]
                                              /\ "size" \notin DOMAIN sec.d[key])})
  IN IF (\E key \in Keys(sec) : ~IsNumeric(key)) \/ met \cap sec.bad # {}
     THEN [items |-> << >>, raised |-> TRUE]
     ELSE [items |-> [i \in 1..Len(order) |->
                        DependentNavItem(nav, order[i], sec.d[order[i]], navs, utcoffset)],
           raised |-> FALSE]

NoItems == [items |-> << >>, raised |-> FALSE]

NavItems(nav, cache, keyword, preferences, app_blacklist, friend_blacklist, navs, utcoffset) ==
  CASE nav.modifier = "%a" /\ keyword \in {preferences.KEYWORD, preferences.KEYWORD_APPS} ->
         IF preferences.SHOW_DEPENDENT \in {"all", "onlyApps"} /\ HasSection(cache, "apps")
         THEN DependentNavItems(nav, cache.d["apps"], app_blacklist, FALSE,
                                preferences.SHOW_UNINSTALLED = "false", navs, utcoffset)
         ELSE NoItems
    [] nav.modifier = "%f"
         /\ keyword \in {preferences.KEYWORD, preferences.KEYWORD_FRIENDS} ->
         IF /\ preferences.SHOW_DEPENDENT \in {"all", "onlyFriends"}
            /\ HasSection(cache, "friends")
         THEN DependentNavItems(nav, cache.d["friends"], friend_blacklist,
                                skip_repeated_action(nav, preferences), FALSE, navs,
                                utcoffset)
         ELSE NoItems
    [] OTHER ->
         IF \/ keyword \in {preferences.KEYWORD_APPS, preferences.KEYWORD_FRIENDS}
            \/ nav.modifier # ""
         THEN NoItems
         ELSE [items |-> <<PlainNavItem(nav, navs, utcoffset)>>, raised |-> FALSE]

Joined(one, rest) ==
  [items |-> one.items \o rest.items, raised |-> one.raised \/ rest.raised]

RECURSIVE NavigationItems(_, _, _, _, _, _, _, _)
NavigationItems(i, cache, keyword, preferences, app_blacklist, friend_blacklist, navs, utcoffset) ==
  IF i > Len(STEAM_NAVIGATIONS)
  THEN NoItems
  ELSE Joined(NavItems(STEAM_NAVIGATIONS[i], cache, keyword, preferences,
                       app_blacklist, friend_blacklist, navs, utcoffset),
              NavigationItems(i + 1, cache, keyword, preferences, app_blacklist,
                              friend_blacklist, navs, utcoffset))

(***************************************************************************)
(* The one value of a set of one value: Only({F(x) : x \in {e}}) is F(e)    *)
(* with e computed once.                                                   *)
(***************************************************************************)
Only(set) == CHOOSE x \in set : TRUE

(***************************************************************************)
(* Fractions.  The metrics of get_item_metrics are quotients of small      *)
(* integers; a fraction is <<numerator, denominator>> in lowest terms      *)
(* with a positive denominator.                                            *)
(***************************************************************************)
RECURSIVE Gcd(_, _)
Gcd(a, b) == IF b = 0 THEN a ELSE Gcd(b, a % b)

Abs(a) == IF a < 0 THEN -a ELSE a

Lcm(a, b) == Only({(x \div Gcd(x, y)) * y : x \in {a}, y \in {b}})

Frac(n, d) ==
  LET g == Gcd(Abs(n), Abs(d))
  IN IF d < 0 THEN <<(-n) \div g, (-d) \div g>> ELSE <<n \div g, d \div g>>

FracAdd(p, q) == Frac(p[1] * q[2] + q[1] * p[2], p[2] * q[2])

FracLess(p, q) == p[1] * q[2] < q[1] * p[2]

Zero == <<0, 1>>

One == <<1, 1>>

(***************************************************************************)
(* query.py, ITEM_TYPES and ITEM_METRIC_MULTS, lines 8 and 344-358: the    *)
(* multipliers in millionths.                                              *)
(***************************************************************************)
ITEM_TYPES == <<"app", "friend", "nav", "action">>

ITEM_METRIC_MULTS ==
  << [key |-> "type", mult |-> 924256],
     [key |-> "name-fuzzy-index", mult |-> 196592],
     [key |-> "name-fuzzy-order", mult |-> 177762],
     [key |-> "name-exact-index", mult |-> 51574],
     [key |-> "name-exact-order", mult |-> 47850],
     [key |-> "name-length", mult |-> 282486],
     [key |-> "name-chars", mult |-> 297724],
     [key |-> "desc-fuzzy", mult |-> 1000000],
     [key |-> "desc-length", mult |-> 379305],
     [key |-> "installed", mult |-> 241787],
     [key |-> "launched", mult |-> 604697],
     [key |-> "times", mult |-> 73986] >>

(***************************************************************************)
(* re.sub(r"[^a-z0-9 ]", " ", text.lower()), and the first match of        *)
(* r"\bword\b" in a text so cleaned, where a word boundary is an end of    *)
(* the text or a blank next to the word.                                   *)
(***************************************************************************)
WordChars ==
  { "a", "b", "c", "d", "e", "f", "g", "h", "i", "j", "k", "l", "m", "n", "o", "p",
    "q", "r", "s", "t", "u", "v", "w", "x", "y", "z",
    "0", "1", "2", "3", "4", "5", "6", "7", "8", "9" }

Cleaned(text) ==
  [i \in 1..Len(text) |-> IF lower(text)[i] \in WordChars THEN lower(text)[i] ELSE " "]

ExactAt(word, text, i) ==
  /\ OccursAt(word, text, i)
  /\ i = 0 \/ text[i] = " "
  /\ i + Len(word) = Len(text) \/ text[i + Len(word) + 1] = " "

re_search(word, text) ==
  LET at == {i \in 0..Len(text) : ExactAt(word, text, i)}
  IN IF at = {} THEN None ELSE Some(CHOOSE i \in at : \A j \in at : i <= j)

Max(set) == CHOOSE x \in set : \A y \in set : y <= x

Min(a, b) == IF a < b THEN a ELSE b

RECURSIVE SumOrd(_)
SumOrd(text) == IF text = << >> THEN 0 ELSE (Ord[Head(text)] - 32) + SumOrd(Tail(text))

(***************************************************************************)
(* query.py, get_item_metrics, lines 405-447: the loop over the words of   *)
(* the search.  acc holds the five sums, the two previous indices (None,   *)
(* or an index, -1 after a word that was not found) and whether a          *)
(* division by zero was met: fuzzy_index / (len(name) - 1) with a name of  *)
(* one character.                                                          *)
(***************************************************************************)
Position(index, name, word, biggest_word_len) ==
  LET word_len_factor == IF biggest_word_len >= 2
                         THEN Frac(Len(word) - 1, biggest_word_len - 1)
                         ELSE Zero
      sum == FracAdd(Frac(index, Len(name) - 1), word_len_factor)
  IN Frac(sum[1], 2 * sum[2])

Before(index, previous) == previous # None /\ index < previous[1]

Bump(sum, yes) == IF yes THEN FracAdd(sum, One) ELSE sum

WordFound(acc, word, name, fuzzy_index, exact_match, no_desc, biggest_word_len) ==
  [ fuzzy_index |-> FracAdd(acc.fuzzy_index,
                            Position(fuzzy_index, name, word, biggest_word_len)),
    fuzzy_order |-> Bump(acc.fuzzy_order, Before(fuzzy_index, acc.previous_fuzzy_index)),
    exact_index |-> IF exact_match # None
                    THEN FracAdd(acc.exact_index,
                                 Position(exact_match[1], name, word, biggest_word_len))
                    ELSE FracAdd(acc.exact_index, One),
    exact_order |-> Bump(acc.exact_order,
                         IF exact_match # None
                         THEN Before(exact_match[1], acc.previous_exact_index)
                         ELSE TRUE),
    desc_fuzzy |-> Bump(acc.desc_fuzzy, no_desc),
    previous_fuzzy_index |-> Some(fuzzy_index),
    previous_exact_index |-> IF exact_match # None
                             THEN exact_match
                             ELSE acc.previous_exact_index,
    raised |-> FALSE ]

WordMissing(acc, no_desc) ==
  [ fuzzy_index |-> FracAdd(acc.fuzzy_index, One),
    fuzzy_order |-> FracAdd(acc.fuzzy_order, One),
    exact_index |-> FracAdd(acc.exact_index, One),
    exact_order |-> FracAdd(acc.exact_order, One),
    desc_fuzzy |-> Bump(acc.desc_fuzzy, no_desc),
    previous_fuzzy_index |-> Some(-1),
    previous_exact_index |-> Some(-1),
    raised |-> FALSE ]

WordStep(acc, word, name, description, biggest_word_len) ==
  IF find(name, word) # -1
  THEN IF Len(name) = 1
       THEN [acc EXCEPT !.raised = TRUE]
       ELSE WordFound(acc, word, name, find(name, word), re_search(word, name),
                      find(description, word) = -1, biggest_word_len)
  ELSE WordMissing(acc, find(description, word) = -1)

RECURSIVE WordLoop(_, _, _, _, _, _)
WordLoop(acc, split_search, i, name, description, biggest_word_len) ==
  IF acc.raised \/ i > Len(split_search)
  THEN acc
  ELSE WordLoop(WordStep(acc, split_search[i], name, description, biggest_word_len),
                split_search, i + 1, name, description, biggest_word_len)

NoWords ==
  [ fuzzy_index |-> Zero, fuzzy_order |-> Zero, exact_index |-> Zero,
    exact_order |-> Zero, desc_fuzzy |-> Zero, previous_fuzzy_index |-> None,
    previous_exact_index |-> None, raised |-> FALSE ]

(***************************************************************************)
(* query.py, get_item_metrics, lines 361-453.  The result is the metrics   *)
(* in the order of ITEM_METRIC_MULTS, as fractions, and whether the call   *)
(* raised ZeroDivisionError: in the launched metric when the latest        *)
(* launch of the items is less than a day before now, or in the loop over  *)
(* the words.  oldest_launched is the value query_cache passes, the        *)
(* latest launch among the items.                                          *)
(***************************************************************************)
FracMax0(p) == IF p[1] < 0 THEN Zero ELSE p

LaunchedMetric(item, oldest_launched, clock) ==
  IF oldest_launched # None /\ item.launched # None
  THEN FracMax0(Frac(days(clock - item.launched[1]), days(clock - oldest_launched[1])))
  ELSE One

LaunchedRaises(item, oldest_launched, clock) ==
  /\ oldest_launched # None
  /\ item.launched # None
  /\ days(clock - oldest_launched[1]) = 0

TypeIndex(type) == CHOOSE i \in 0..3 : ITEM_TYPES[i + 1] = type

MetricsOf(item, w, nwords, name, description, oldest_launched, most_times, clock) ==
  [ raised |-> w.raised,
    m |-> IF w.raised
          THEN << >>
          ELSE << Frac(TypeIndex(item.type), Len(ITEM_TYPES) - 1),
                  Frac(w.fuzzy_index[1], w.fuzzy_index[2] * nwords),
                  Frac(w.fuzzy_order[1], w.fuzzy_order[2] * nwords),
                  Frac(w.exact_index[1], w.exact_index[2] * nwords),
                  Frac(w.exact_order[1], w.exact_order[2] * nwords),
                  Frac(Min(Len(name) - 1, 100), 100),
                  Frac(SumOrd(name), 9000),
                  Frac(w.desc_fuzzy[1], w.desc_fuzzy[2] * nwords),
                  Frac(IF Len(description) >= 1 THEN Min(Len(description) - 1, 100) ELSE 0,
                       100),
                  IF item.type = "app" /\ item.size = 0 /\ item.location = None
                  THEN One ELSE Zero,
                  LaunchedMetric(item, oldest_launched, clock),
                  IF most_times >= 1 THEN Frac(item.times, most_times) ELSE One >> ]

Raising == [raised |-> TRUE, m |-> << >>]

Measure(item, split_search, name, description, oldest_launched, most_times, clock) ==
  Only({MetricsOf(item, w, Len(split_search), name, description, oldest_launched,
                  most_times, clock) :
          w \in {WordLoop(NoWords, split_search, 1, name, description,
                          Max({Len(split_search[i]) : i \in 1..Len(split_search)}))}})

get_item_metrics(item, split_search, oldest_launched, most_times, clock) ==
  IF LaunchedRaises(item, oldest_launched, clock)
  THEN Raising
  ELSE Only({Measure(item, split_search, name, description, oldest_launched, most_times,
                      clock) :
               name \in {Cleaned(get_name(item)) \o << >>},
               description \in {Cleaned(get_description(item)) \o << >>}})

(***************************************************************************)
(* query.py, query_cache.get_placement, lines 914-929: the sum of the      *)
(* metrics times their multipliers.  Placements are compared exactly: over *)
(* a common denominator of all metrics, a placement is the number whose    *)
(* decimal columns are the sums, over the metrics, of one decimal digit    *)
(* of the multiplier times the metric's numerator.                         *)
(***************************************************************************)
RECURSIVE LcmOf(_)
LcmOf(set) ==
  IF set = {}
  THEN 1
  ELSE LET d == CHOOSE x \in set : TRUE
       IN Lcm(d, LcmOf(set \ {d}))

RECURSIVE Power10(_)
Power10(c) == IF c = 0 THEN 1 ELSE 10 * Power10(c - 1)

Digit(mult, c) == (mult \div Power10(c)) % 10

RECURSIVE Column(_, _, _, _)
Column(m, denominator, c, k) ==
  IF k > Len(m)
  THEN 0
  ELSE Digit(ITEM_METRIC_MULTS[k].mult, c) * (m[k][1] * (denominator \div m[k][2]))
         + Column(m, denominator, c, k + 1)

RECURSIVE Carried(_, _, _, _)
Carry(m, denominator, c, sum) ==
  IF c = 6
  THEN <<sum>>
  ELSE <<sum % 10>> \o Carried(m, denominator, c + 1, sum \div 10)

Carried(m, denominator, c, carry) ==
  Only({Carry(m, denominator, c, sum) : sum \in {Column(m, denominator, c, 1) + carry}})

get_placement(m, denominator) == Carried(m, denominator, 0, 0)

RECURSIVE PlacementLess(_, _, _)
PlacementLess(p, q, c) ==
  IF c = 0
  THEN FALSE
  ELSE IF p[c] # q[c] THEN p[c] < q[c] ELSE PlacementLess(p, q, c - 1)

(***************************************************************************)
(* sorted(items, key=...): the items in the order of their keys, items of  *)
(* equal keys in the order they had.  less[i, j] tells whether the key of  *)
(* items[i] is less than the key of items[j].                              *)
(***************************************************************************)
Ranks(n, less) ==
  [i \in 1..n |-> 1 + Cardinality({j \in 1..n : less[j, i] \/ (~less[i, j] /\ j < i)})]

Arrange(items, less) ==
  Only({[p \in 1..Len(items) |-> items[CHOOSE i \in 1..Len(items) : ranks[i] = p]] :
          ranks \in {Ranks(Len(items), less) \o << >>}})

(***************************************************************************)
(* query.py, SteamExtensionItem.to_sort_list, lines 202-213, and the       *)
(* order of Python on the tuples it returns.                               *)
(***************************************************************************)
to_sort_list(item) ==
  << IF item.launched # None THEN -item.launched[1] ELSE 0,
     -item.playtime,
     lower(item.chars) >>

SortListLess(a, b) ==
  \/ a[1] < b[1]
  \/ a[1] = b[1] /\ a[2] < b[2]
  \/ a[1] = b[1] /\ a[2] = b[2] /\ StrLess(a[3], b[3])

Unsearched(items) ==
  Arrange(items, [i \in 1..Len(items), j \in 1..Len(items) |->
                    SortListLess(to_sort_list(items[i]), to_sort_list(items[j]))])

(***************************************************************************)
(* query.py, query_cache, lines 898-931: the items that hold every word    *)
(* of the search in their lowercased name and description, sorted by       *)
(* placement.  The result is [items, raised].                              *)
(***************************************************************************)
SelectItems(items, keep) ==
  LET RECURSIVE From(_)
      From(i) == IF i > Len(items)
                 THEN << >>
                 ELSE (IF keep[i] THEN <<items[i]>> ELSE << >>) \o From(i + 1)
  IN From(1)

(***************************************************************************)
(* The filter of the search keeping an item that holds any word of the     *)
(* search rather than every word, the variant C22 excludes.                *)
(***************************************************************************)
MatchesAny(item, split_search) ==
  \E i \in 1..Len(split_search) :
    find(lower(get_name(item)) \o <<" ">> \o lower(get_description(item)),
         split_search[i]) # -1

Matches(item, split_search) ==
  \A i \in 1..Len(split_search) :
    find(lower(get_name(item)) \o <<" ">> \o lower(get_description(item)),
         split_search[i]) # -1

Denominator(metrics) ==
  LcmOf({metrics[i].m[k][2] : i \in 1..Len(metrics), k \in 1..Len(ITEM_METRIC_MULTS)})

Placed(items, placements) ==
  [items |-> Arrange(items, [i \in 1..Len(items), j \in 1..Len(items) |->
                               PlacementLess(placements[i], placements[j], 7)]),
   raised |-> FALSE]

Measured(items, metrics, denominator) ==
  Only({Placed(items, placements) :
          placements \in {[i \in 1..Len(items) |->
                             get_placement(metrics[i].m, denominator)] \o << >>}})

Ranked(items, metrics) ==
  IF \E i \in 1..Len(items) : metrics[i].raised
  THEN [items |-> << >>, raised |-> TRUE]
  ELSE Only({Measured(items, metrics, denominator) :
               denominator \in {Denominator(metrics)}})

Filtered(items, split_search, oldest_launched, most_times, clock) ==
  Only({Ranked(items, metrics) :
          metrics \in {[i \in 1..Len(items) |->
                          get_item_metrics(items[i], split_search, oldest_launched,
                                           most_times, clock)] \o << >>}})

Searched(items, all, split_search, clock) ==
  Filtered(SelectItems(items, [i \in 1..Len(items) |-> Matches(items[i], split_search)]),
           split_search,
           IF \E i \in 1..Len(all) : all[i].launched # None
           THEN Some(Max({all[i].launched[1] : i \in {j \in 1..Len(all) :
                                                       all[j].launched # None}}))
           ELSE None,
           Max({0} \cup {all[i].times : i \in 1..Len(all)}),
           clock)

(***************************************************************************)
(* query.py, query_cache, lines 455-953.  keyword is a string, search is   *)
(* None or a text, MAX_ITEMS is the integer int() reads in the preference  *)
(* or None when it raises.  The result is the list returned and whether    *)
(* the call raised.                                                        *)
(***************************************************************************)
ActionItem(name) ==
  SteamExtensionItem("action", None, FALSE, name, Chars[name],
                     Some(Chars[get_lang_string(name)]),
                     Some(Chars[get_lang_string(name)] \o <<"%", "d">>),
                     None, 0, 0, [launched |-> None, times |-> 0])

ExtensionItems ==
  [items |-> <<ActionItem("update_cache"), ActionItem("clear_cache"),
               ActionItem("clear_images"), ActionItem("rebuild_cache")>>,
   raised |-> FALSE]

(***************************************************************************)
(* The end of query_cache without the truncation of line 937, the variant  *)
(* C21 excludes.                                                           *)
(***************************************************************************)
ReturnedWhole(sorted, max_items) ==
  IF sorted.raised
  THEN [items |-> << >>, raised |-> TRUE]
  ELSE IF Len(sorted.items) = 0
       THEN [items |-> <<ActionItem("no_results")>>, raised |-> FALSE]
       ELSE [items |-> sorted.items, raised |-> FALSE]

Returned(sorted, max_items) ==
  IF sorted.raised
  THEN [items |-> << >>, raised |-> TRUE]
  ELSE IF Len(sorted.items) = 0
       THEN [items |-> <<ActionItem("no_results")>>, raised |-> FALSE]
       ELSE [items |-> SubSeq(sorted.items, 1, Min(max_items, Len(sorted.items))),
             raised |-> FALSE]

Sorted(found, search, clock) ==
  IF found.raised
  THEN found
  ELSE IF search = << >>
       THEN [items |-> Unsearched(found.items), raised |-> FALSE]
       ELSE Searched(found.items, found.items, split(search), clock)

Candidates(cache, keyword, preferences, app_blacklist, friend_blacklist, utcoffset) ==
  Joined(IF keyword \in {preferences.KEYWORD, preferences.KEYWORD_APPS}
            /\ HasSection(cache, "apps")
         THEN AppItems(cache.d["apps"], app_blacklist, preferences, utcoffset)
         ELSE NoItems,
    Joined(IF keyword \in {preferences.KEYWORD, preferences.KEYWORD_APPS}
              /\ HasSection(cache, "nonSteam")
           THEN NonSteamItems(cache.d["nonSteam"], app_blacklist, utcoffset)
           ELSE NoItems,
      Joined(IF keyword \in {preferences.KEYWORD, preferences.KEYWORD_FRIENDS}
                /\ HasSection(cache, "friends")
             THEN FriendItems(cache.d["friends"], friend_blacklist, utcoffset)
             ELSE NoItems,
        Joined(IF keyword \in {preferences.KEYWORD, preferences.KEYWORD_APPS,
                               preferences.KEYWORD_FRIENDS,
                               preferences.KEYWORD_NAVIGATIONS}
               THEN NavigationItems(1, cache, keyword, preferences, app_blacklist,
                                    friend_blacklist,
                                    IF HasSection(cache, "navs")
                                    THEN cache.d["navs"]
                                    ELSE EmptyDicts,
                                    utcoffset)
               ELSE NoItems,
               IF keyword \in {preferences.KEYWORD, preferences.KEYWORD_EXTENSION}
               THEN ExtensionItems
               ELSE NoItems))))

QueryChecked(disk, keyword, preferences, search, utcoffset, clock) ==
  Returned(Sorted(Candidates(load_cache(disk), keyword, preferences,
                             get_blacklist("app", preferences),
                             get_blacklist("friend", preferences), utcoffset),
                  IF search = None THEN << >> ELSE lower(strip(search[1])),
                  clock),
           IF preferences.MAX_ITEMS # None /\ preferences.MAX_ITEMS[1] > 0
           THEN preferences.MAX_ITEMS[1]
           ELSE 10)

query_cache(disk, keyword, preferences, search, utcoffset, clock) ==
  IF ~check_required_preferences(preferences)
  THEN [items |-> << >>, raised |-> TRUE]
  ELSE IF keyword \in {preferences.KEYWORD, preferences.KEYWORD_APPS,
                       preferences.KEYWORD_FRIENDS, preferences.KEYWORD_NAVIGATIONS,
                       preferences.KEYWORD_EXTENSION}
       THEN QueryChecked(disk, keyword, preferences, search, utcoffset, clock)
       ELSE QueryChecked(disk, "", preferences, None, utcoffset, clock)

(***************************************************************************)
(* Bounds of the model: the clock starts at StartTime and every caller-    *)
(* facing operation takes one tick, up to MaxTime.  Long is a refresh      *)
(* interval that no run of the model outlasts; Huge is one longer than     *)
(* the time since datetime.min (more than 2025 years, "3000y").            *)
(***************************************************************************)
StartTime == 2

MaxTime == 4

Long == 10

Huge == 100

(***************************************************************************)
(* The inputs: preferences, what the collectors find, action strings.      *)
(***************************************************************************)
Prefs(files, steam_api, app_blacklist) ==
  [UPDATE_FILES |-> files, UPDATE_STEAM_API |-> steam_api,
   APP_BLACKLIST |-> app_blacklist, FRIEND_BLACKLIST |-> {},
   STEAM_USERNAME |-> "user", FRIEND_ACTION |-> "chat",
   KEYWORD |-> "s", KEYWORD_APPS |-> "sa", KEYWORD_FRIENDS |-> "sf",
   KEYWORD_NAVIGATIONS |-> "sn", KEYWORD_EXTENSION |-> "se",
   MAX_ITEMS |-> Some(10), SHOW_UNINSTALLED |-> "true", SHOW_DEPENDENT |-> "all"]

Preferences == {Prefs(0, 0, {}), Prefs(1, 1, {}), Prefs(Long, Huge, {3})}

Shortcut3 ==
  [app_id |-> 3, name |-> Some("Game3"), exe |-> None, size_on_disk |-> None,
   launched |-> None]

Manifest1 ==
  [name |-> "Game1", installdir |-> "dir1", size |-> 5, updated |-> None,
   launched |-> Some(1)]

Folder(shortcuts, shortcuts_dict, manifests) ==
  [shortcuts |-> shortcuts, shortcuts_dict |-> shortcuts_dict,
   scan |-> "ok", manifests |-> manifests]

ShortcutFolder == Folder("ok", 0 :> Shortcut3, EmptyDict)

InstalledFolder == Folder("nofile", EmptyDict, 1 :> Manifest1)

Api(steamid, owned, friends, info) ==
  [steamid |-> steamid, owned |-> owned, friends |-> friends, info |-> info]

Owned1 == 1 :> [name |-> "Game1", playtime |-> 9, icon_hash |-> None]

Friends7 == 7 :> [since |-> 1]

Info7 ==
  7 :> [name |-> Some("Friend7"), icon_hash |-> None, updated |-> None,
        real_name |-> None, created |-> None]

ApiDown == Api(None, EmptyDict, EmptyDict, EmptyDict)

ApiEmpty == Api(Some(99), EmptyDict, EmptyDict, EmptyDict)

ApiFull == Api(Some(99), Owned1, Friends7, Info7)

Env(steam_folders, api) == [steam_folders |-> steam_folders, api |-> api]

NoEnv == Env(<< >>, ApiDown)

Envs ==
  { NoEnv, Env(<<ShortcutFolder>>, ApiEmpty), Env(<<InstalledFolder>>, ApiFull),
    Env(<<ShortcutFolder, InstalledFolder>>, ApiFull) }

(***************************************************************************)
(* Further inputs of the single calls: preferences with both blacklists    *)
(* set and preferences that lack a required one; a Steam folder whose      *)
(* shortcut decoding and manifest scan both raise, one with a shortcut     *)
(* file and a manifest, a folder with an installed app followed by a       *)
(* library folder without any, and a Steam API that answers with no Steam  *)
(* folder configured.  ApiEmpty stands for the failed requests as well: the       *)
(* collectors of get.py return an empty dictionary when the request fails  *)
(* (get.py lines 361 and 409).                                             *)
(***************************************************************************)
Blacklisting == [Prefs(0, 0, {1, 3}) EXCEPT !.FRIEND_BLACKLIST = {7}]

Incomplete ==
  [key \in (DOMAIN Prefs(0, 0, {})) \ {"STEAM_USERNAME"} |-> Prefs(0, 0, {})[key]]

AllPreferences == Preferences \cup {Blacklisting, Incomplete}

RaisingFolder == [Folder("raise", EmptyDict, EmptyDict) EXCEPT !.scan = "raise"]

BothFolder == Folder("ok", EmptyDict, 1 :> Manifest1)

BareFolder == Folder("nofile", EmptyDict, EmptyDict)

AllEnvs ==
  Envs \cup { Env(<< >>, ApiFull), Env(<<RaisingFolder>>, ApiFull),
              Env(<<RaisingFolder>>, ApiEmpty), Env(<<BothFolder>>, ApiEmpty),
              Env(<<InstalledFolder, BareFolder>>, ApiEmpty) }

Hosts ==
  { [os_name |-> "posix", utcoffset |-> -1], [os_name |-> "nt", utcoffset |-> 0],
    [os_name |-> "posix", utcoffset |-> 1] }

Act(s, arg) == [s |-> s, arg |-> arg]

Actions ==
  { Act("APP", "1"), Act("APP", "3"), Act("APP", "2"), Act("FRIEND", "7"),
    Act("s:", "exit"), Act("w:", "help.steampowered.com"), Act("update_cache", ""),
    Act("clear_cache", ""), Act("clear_images", ""), Act("rebuild_cache", ""),
    Act("no_results", ""), Act("error", ""), Act("bogus", "") }

NoAction == Act("", "")

(***************************************************************************)
(* The cache files the model starts from.  cache.json outlives the         *)
(* sessions and the releases of the extension: it is absent, or holds one  *)
(* installed Steam app, one non-Steam app, one friend and one navigation,  *)
(* each launched once at time 1, and an "extension" section that is        *)
(* missing, not a dictionary, or carries the two timestamps (valid, or     *)
(* null) or none.                                                          *)
(***************************************************************************)
Launched1 == <<1, 1>>

Populated ==
  [d |-> [apps |-> [d |-> "1" :> [name |-> "Game1", dir |-> "dir1", size |-> 5,
                                  playtime |-> 9, launched |-> Launched1],
                    bad |-> {}],
          nonSteam |-> [d |-> "3" :> [name |-> "Game3", launched |-> Launched1],
                        bad |-> {}],
          friends |-> [d |-> "7" :> [name |-> "Friend7", since |-> 1,
                                     launched |-> Launched1],
                       bad |-> {}],
          navs |-> [d |-> "s:exit" :> [launched |-> Launched1], bad |-> {}]],
   bad |-> {}]

Extensions ==
  { [files |-> Some(1), steamApi |-> Some(1), username |-> "user", id |-> 99],
    [files |-> None, steamApi |-> None, username |-> "user", id |-> 99],
    [username |-> "user", id |-> 99] }

InitFiles ==
  {NoFile, FileOf(Populated), FileOf([Populated EXCEPT !.bad = {"extension"}])}
    \cup {FileOf(SetSection(Populated, "extension", e)) : e \in Extensions}

(***************************************************************************)
(* Further cache files of the single calls: a section that is not a        *)
(* dictionary, an entry that is not a dictionary, an ID key that is not a  *)
(* number.                                                                 *)
(***************************************************************************)
Items == {"apps", "nonSteam", "friends", "navs"}

NotDict(dicts, key) == [d |-> Del(dicts.d, key), bad |-> dicts.bad \cup {key}]

BadEntry(cache, sec, key) == SetSection(cache, sec, NotDict(cache.d[sec], key))

OddKey(cache, sec, key) == SetSection(cache, sec, SetEntry(cache.d[sec], key, EmptyDict))

Corrupt ==
  { NotDict(Populated, sec) : sec \in Items }
    \cup { BadEntry(Populated, "apps", "1"), BadEntry(Populated, "nonSteam", "3"),
           BadEntry(Populated, "friends", "7") }
    \cup { OddKey(Populated, sec, "ab") : sec \in {"apps", "nonSteam", "friends"} }

CallFiles == InitFiles \cup {FileOf(cache) : cache \in Corrupt}

(***************************************************************************)
(* The state: cache.json, the machine the extension runs on, the clock,    *)
(* the last operation with its inputs and what it did, and the harness of  *)
(* the pure-function checks.                                               *)
(***************************************************************************)
VARIABLES disk, host, now, last, call

vars == <<disk, host, now, last, call>>

NoCall == [fn |-> "none"]

NoLast ==
  [op |-> "none", action |-> NoAction, execute |-> FALSE, force |-> FALSE,
   preferences |-> Prefs(0, 0, {}), env |-> NoEnv, pre |-> NoFile, at |-> 0,
   raised |-> FALSE, counted |-> FALSE, saved |-> NoFile, built |-> FALSE,
   build |-> NoBuild]

Init ==
  /\ disk \in InitFiles
  /\ host \in Hosts
  /\ now = StartTime
  /\ last = NoLast
  /\ call = NoCall

(***************************************************************************)
(* The caller-facing operation build_cache(preferences, force).            *)
(***************************************************************************)
BuildCacheCalled(b, preferences, force, env) ==
  /\ disk' = b.disk
  /\ last' = [op |-> "build", action |-> NoAction, execute |-> FALSE,
              force |-> force, preferences |-> preferences, env |-> env,
              pre |-> disk, at |-> now, raised |-> b.raised,
              counted |-> FALSE, saved |-> NoFile, built |-> TRUE, build |-> b]

BuildCacheOver(preference_set, env_set) ==
  /\ now < MaxTime
  /\ \E preferences \in preference_set, force \in BOOLEAN, env \in env_set :
       BuildCacheCalled(build_cache(disk, preferences, force, env, now),
                        preferences, force, env)
  /\ now' = now + 1
  /\ UNCHANGED <<host, call>>

BuildCache == BuildCacheOver(Preferences, Envs)

(***************************************************************************)
(* The caller-facing operation execute_action(action, preferences,         *)
(* execute).  The Steam folders and the Steam API are read only by the     *)
(* calls that reach build_cache.                                           *)
(***************************************************************************)
BuildIsReached(r, execute) ==
  r.go = "rebuild" \/ (r.go = "count" /\ execute /\ r.force_cache # "skip")

EnvsRead(file, action, preferences, execute, os_name, env_set) ==
  IF BuildIsReached(Resolve(load_cache(file), action, preferences, execute, os_name),
                    execute)
  THEN env_set
  ELSE {NoEnv}

ExecuteActionCalled(e, action, preferences, execute, env) ==
  /\ disk' = e.disk
  /\ last' = [op |-> "execute", action |-> action, execute |-> execute,
              force |-> FALSE, preferences |-> preferences,
              env |-> IF e.built THEN env ELSE NoEnv,
              pre |-> disk, at |-> now, raised |-> e.raised,
              counted |-> e.counted, saved |-> e.saved,
              built |-> e.built, build |-> e.build]

ExecuteActionOver(preference_set, env_set) ==
  /\ now < MaxTime
  /\ \E action \in Actions, preferences \in preference_set, execute \in BOOLEAN :
       \E env \in EnvsRead(disk, action, preferences, execute, host.os_name, env_set) :
         ExecuteActionCalled(execute_action(disk, action, preferences, execute, env,
                                            host.os_name, host.utcoffset, now),
                             action, preferences, execute, env)
  /\ now' = now + 1
  /\ UNCHANGED <<host, call>>

ExecuteAction == ExecuteActionOver(Preferences, Envs)

Next == BuildCache \/ ExecuteAction

Spec == Init /\ [][Next]_vars

(***************************************************************************)
(* The single calls: one caller-facing operation, called one tick before   *)
(* MaxTime on any of the cache files, with any of the preferences and      *)
(* whatever the collectors find.                                           *)
(***************************************************************************)
InitCall ==
  /\ disk \in CallFiles
  /\ host \in Hosts
  /\ now = MaxTime - 1
  /\ last = NoLast
  /\ call = NoCall

BuildCacheCall == BuildCacheOver(AllPreferences, AllEnvs)

ExecuteActionCall == ExecuteActionOver(AllPreferences, AllEnvs)

(***************************************************************************)
(* The caller-facing operation query_cache(keyword, preferences, search).  *)
(* The keywords are the five of the preferences and one that is none of    *)
(* them; the searches are no search, the empty one, and texts of one and   *)
(* two words with capitals and blanks.  The single calls query with the    *)
(* keyword of everything and with the unknown one, without a search and    *)
(* with one.                                                               *)
(***************************************************************************)
Keywords == {"s", "sa", "sf", "sn", "se", "x"}

Searches ==
  { None, Some(<< >>), Some(<<"G", "a", "m", "e">>), Some(<<" ", "a", " ">>),
    Some(<<"7">>), Some(<<"z", "z">>), Some(<<"e", "x", " ", "s">>) }

QueryCacheCalled(q, keyword, preferences, search) ==
  /\ call' = [fn |-> "query", keyword |-> keyword, search |-> search,
              items |-> q.items, raised |-> q.raised]
  /\ last' = [NoLast EXCEPT !.op = "query", !.preferences = preferences, !.pre = disk,
                            !.at = now, !.raised = q.raised]

QueryCacheOver(keyword_set, preference_set, search_set) ==
  /\ now < MaxTime
  /\ \E keyword \in keyword_set, preferences \in preference_set, search \in search_set :
       QueryCacheCalled(query_cache(disk, keyword, preferences, search, host.utcoffset,
                                    now),
                        keyword, preferences, search)
  /\ now' = now + 1
  /\ UNCHANGED <<disk, host>>

QueryCacheCall ==
  QueryCacheOver({"s", "x"}, AllPreferences, {None, Some(<<"G", "a", "m", "e">>)})

NextCall == BuildCacheCall \/ ExecuteActionCall \/ QueryCacheCall

SpecCall == InitCall /\ [][NextCall]_vars

(***************************************************************************)
(* The queries: one query_cache call, one tick before MaxTime, with any    *)
(* keyword and search, on no cache file, on the populated one, and on one  *)
(* that also holds an owned app that is not installed, a second friend     *)
(* whose name is one character, and the statistics of a navigation of an   *)
(* app; with the maximum of items set to two, to zero and to no number,    *)
(* with the uninstalled apps hidden and with the dependent navigations     *)
(* restricted.                                                             *)
(***************************************************************************)
Stocked ==
  [Populated EXCEPT
     !.d["apps"].d = @ @@ ("2" :> [name |-> "Game3", playtime |-> 9]),
     !.d["friends"].d = @ @@ ("8" :> [name |-> "a", since |-> 1]),
     !.d["navs"].d = @ @@ ("s:backup/1" :> [launched |-> <<2, 2>>])]

Replayed ==
  [Populated EXCEPT !.d["apps"].d = @ @@ ("2" :> [name |-> "a", launched |-> Launched1])]

Twins ==
  [Populated EXCEPT
     !.d["apps"].d = ("1" :> [@["1"] EXCEPT !.launched = <<1, 2>>]) @@ ("2" :> @["1"]),
     !.d["navs"].d = @ @@ ("s:backup/1" :> [launched |-> <<-1>>])]

QueryFiles ==
  {NoFile, FileOf(Populated), FileOf(Stocked), FileOf(Replayed), FileOf(Twins)}

QueryPreferences ==
  {Prefs(0, 0, {}), Blacklisting}
    \cup {[Prefs(0, 0, {}) EXCEPT !.MAX_ITEMS = max_items] :
            max_items \in {Some(2), Some(0), None}}
    \cup {[Prefs(0, 0, {}) EXCEPT !.SHOW_UNINSTALLED = "false"],
          [Prefs(0, 0, {}) EXCEPT !.SHOW_DEPENDENT = "onlyApps"],
          [Prefs(0, 0, {}) EXCEPT !.SHOW_DEPENDENT = "none"]}

InitQuery ==
  /\ disk \in QueryFiles
  /\ host \in Hosts
  /\ now = MaxTime - 1
  /\ last = NoLast
  /\ call = NoCall

QueryCache == QueryCacheOver(Keywords, QueryPreferences, Searches)

NextQuery == QueryCache

SpecQuery == InitQuery /\ [][NextQuery]_vars

(***************************************************************************)
(* The pure functions of cache.py on their own: merge_dictionaries and     *)
(* build_cache.return_launches applied to inputs drawn from bounded sets.  *)
(* A dictionary passed as update is the sequence of its (key, value)       *)
(* pairs, a value that may be None being None or Some(v).                  *)
(***************************************************************************)
Pair(k, v) == [k |-> k, v |-> v]

Sources ==
  { EmptyDict,
    "name" :> "Old",
    ("size" :> 1) @@ ("dir" :> "x"),
    ("name" :> "Old") @@ ("size" :> 1) @@ ("exe" :> "run") @@ ("launched" :> <<1, 1>>) }

Updates ==
  { << >>,
    <<Pair("name", Some("Foo"))>>,
    <<Pair("name", Some("Foo")), Pair("exe", None), Pair("size", None),
      Pair("launched", None)>>,
    <<Pair("name", Some("Foo")), Pair("size", Some(7)), Pair("launched", Some(3))>>,
    <<Pair("ab", Some("q"))>>,
    <<Pair("id", None), Pair("name", Some("Foo"))>> }

DelIfNones == { << >>, <<"size">>, <<"exe", "size">> }

Rules == { {}, {"launched"}, {"updated", "launched"} }

OldLauncheds == { None, <<1>>, <<1, 1>>, <<3, 2>> }

NewLauncheds == { None, Some(0), Some(1), Some(3), Some(5) }

NoMerge == [src |-> EmptyDict, raised |-> FALSE]

MergeInput(source, update, del_if_none, rules) ==
  [fn |-> "input", source |-> source, update |-> update, del_if_none |-> del_if_none,
   rules |-> rules, old_launched |-> None, new_launched |-> None,
   once |-> NoMerge, twice |-> NoMerge, launched |-> None]

LaunchesInput(old_launched, new_launched) ==
  [fn |-> "input", source |-> EmptyDict, update |-> << >>, del_if_none |-> << >>,
   rules |-> {}, old_launched |-> old_launched, new_launched |-> new_launched,
   once |-> NoMerge, twice |-> NoMerge, launched |-> None]

InitMerge ==
  /\ disk = NoFile
  /\ host \in Hosts
  /\ now = StartTime
  /\ last = NoLast
  /\ call \in {MergeInput(source, update, del_if_none, rules) :
                 source \in Sources, update \in Updates,
                 del_if_none \in DelIfNones, rules \in Rules}
              \cup {LaunchesInput(old_launched, new_launched) :
                      old_launched \in OldLauncheds, new_launched \in NewLauncheds}

(***************************************************************************)
(* merge_dictionaries(source, update, del_if_none, rules), called once.    *)
(***************************************************************************)
MergeOnce ==
  /\ call.fn = "input"
  /\ call' = [call EXCEPT !.fn = "merge",
                          !.once = merge_dictionaries(call.source, call.update,
                                                      call.del_if_none, call.rules, now)]
  /\ UNCHANGED <<disk, host, now, last>>

(***************************************************************************)
(* The same update merged a second time into the dictionary the first      *)
(* call left.                                                              *)
(***************************************************************************)
MergeTwice ==
  /\ call.fn = "merge"
  /\ call' = [call EXCEPT !.fn = "merge2",
                          !.twice = merge_dictionaries(call.once.src, call.update,
                                                       call.del_if_none, call.rules, now)]
  /\ UNCHANGED <<disk, host, now, last>>

(***************************************************************************)
(* return_launches(old_launched, new_launched), called at time now.        *)
(***************************************************************************)
ReturnLaunches ==
  /\ call.fn = "input"
  /\ call' = [call EXCEPT !.fn = "launches",
                          !.launched = return_launches(call.old_launched,
                                                       call.new_launched, now)]
  /\ UNCHANGED <<disk, host, now, last>>

NextMerge == MergeOnce \/ MergeTwice \/ ReturnLaunches

SpecMerge == InitMerge /\ [][NextMerge]_vars

(***************************************************************************)
(* get.py, _vdf_to_dict, lines 18-78.  A line is a text; the value of a    *)
(* key is a leaf [leaf |-> text] or a nested dictionary [block |-> d],     *)
(* and a dictionary is a function of the keys (texts).  The state of the   *)
(* loop is [vdf_dict, vdf_levels, raised], raised being "" or the name of  *)
(* the exception.                                                          *)
(***************************************************************************)
Leaf(text) == [leaf |-> text]

Block(d) == [block |-> d]

count(text, ch) == Cardinality({i \in 1..Len(text) : text[i] = ch})

count_escaped(text) ==
  Cardinality({i \in 1..(Len(text) - 1) : text[i] = "\\" /\ text[i + 1] = "\""})

RECURSIVE SplitOn(_, _, _, _)
SplitOn(text, sep, i, piece) ==
  IF i > Len(text)
  THEN <<piece>>
  ELSE IF text[i] = sep
       THEN <<piece>> \o SplitOn(text, sep, i + 1, << >>)
       ELSE SplitOn(text, sep, i + 1, Append(piece, text[i]))

RECURSIVE SetAt(_, _, _, _)
SetAt(add_dict, levels, key, value) ==
  IF levels = << >>
  THEN Put(add_dict, key, value)
  ELSE Put(add_dict, Head(levels),
           Block(SetAt(add_dict[Head(levels)].block, Tail(levels), key, value)))

VdfStart == [vdf_dict |-> EmptyDict, vdf_levels |-> << >>, raised |-> ""]

VdfLineLenient(st, line) ==
  LET quote_count == count(line, "\"") - count_escaped(line)
      pieces == SplitOn(line, "\"", 1, << >>)
  IN IF quote_count = 2
     THEN LET levels == Append(st.vdf_levels, pieces[2])
          IN IF Len(levels) = 1
             THEN [st EXCEPT !.vdf_levels = levels,
                             !.vdf_dict = Put(@, levels[1], Block(EmptyDict))]
             ELSE [st EXCEPT !.vdf_levels = levels,
                             !.vdf_dict = SetAt(@, SubSeq(levels, 1, Len(levels) - 1),
                                                levels[Len(levels)], Block(EmptyDict))]
     ELSE IF quote_count = 4 /\ st.vdf_levels # << >>
          THEN [st EXCEPT !.vdf_dict = SetAt(@, st.vdf_levels, pieces[2], Leaf(pieces[4]))]
          ELSE IF quote_count # 4 /\ count(line, "}") > 0 /\ st.vdf_levels # << >>
               THEN [st EXCEPT !.vdf_levels = SubSeq(@, 1, Len(@) - 1)]
               ELSE st

VdfLine(st, line) ==
  LET quote_count == count(line, "\"") - count_escaped(line)
      pieces == SplitOn(line, "\"", 1, << >>)
  IN IF quote_count = 2
     THEN LET levels == Append(st.vdf_levels, pieces[2])
          IN IF Len(levels) = 1
             THEN IF DOMAIN st.vdf_dict # {}
                  THEN [st EXCEPT !.vdf_levels = levels, !.raised = "KeyError"]
                  ELSE [st EXCEPT !.vdf_levels = levels,
                                  !.vdf_dict = Put(@, levels[1], Block(EmptyDict))]
             ELSE [st EXCEPT !.vdf_levels = levels,
                             !.vdf_dict = SetAt(@, SubSeq(levels, 1, Len(levels) - 1),
                                                levels[Len(levels)], Block(EmptyDict))]
     ELSE IF quote_count = 4
          THEN IF st.vdf_levels = << >>
               THEN [st EXCEPT !.raised = "KeyError"]
               ELSE [st EXCEPT !.vdf_dict = SetAt(@, st.vdf_levels, pieces[2],
                                                  Leaf(pieces[4]))]
          ELSE IF count(line, "}") > 0
               THEN IF st.vdf_levels = << >>
                    THEN [st EXCEPT !.raised = "ValueError"]
                    ELSE [st EXCEPT !.vdf_levels = SubSeq(@, 1, Len(@) - 1)]
               ELSE st

RECURSIVE VdfLoop(_, _, _, _)
VdfLoop(st, vdf_lines, index, end) ==
  IF index > end \/ st.raised # ""
  THEN st
  ELSE VdfLoop(VdfLine(st, vdf_lines[index]), vdf_lines, index + 1, end)

VdfReturn(st) ==
  IF st.raised # ""
  THEN [raised |-> st.raised, tree |-> None]
  ELSE IF DOMAIN st.vdf_dict = {}
       THEN [raised |-> "KeyError", tree |-> None]
       ELSE [raised |-> "", tree |-> Some(st.vdf_dict)]

_vdf_to_dict(vdf_lines) == VdfReturn(VdfLoop(VdfStart, vdf_lines, 1, Len(vdf_lines)))

(***************************************************************************)
(* The app manifests _vdf_to_dict is applied to.  A manifest is a          *)
(* sequence of entries: the key of a block, written as the line of the     *)
(* key and the line of the opening brace, a key with its value, written    *)
(* on one line with the quotes of the value escaped, or a closing brace.   *)
(* Every manifest of at most MaxEntries entries is tried, well-formed or   *)
(* not.                                                                    *)
(***************************************************************************)
MaxEntries == 5

BlockEntry(key) == [kind |-> "block", key |-> key]

PairEntry(key, value) == [kind |-> "pair", key |-> key, value |-> value]

CloseEntry == [kind |-> "close"]

ManifestEntries ==
  { BlockEntry(<<"A">>), BlockEntry(<<"k">>), CloseEntry,
    PairEntry(<<"k">>, <<"v">>), PairEntry(<<"k">>, <<"a", "\"", "b">>) }

Manifests == UNION {[1..n -> ManifestEntries] : n \in 0..MaxEntries}

RECURSIVE Escaped(_)
Escaped(text) ==
  IF text = << >>
  THEN << >>
  ELSE (IF Head(text) = "\"" THEN <<"\\", "\"">> ELSE <<Head(text)>>) \o Escaped(Tail(text))

Quoted(text) == <<"\"">> \o Escaped(text) \o <<"\"">>

Written(entry) ==
  CASE entry.kind = "block" ->
         << [kind |-> "key", line |-> <<"\t">> \o Quoted(entry.key) \o <<"\n">>],
            [kind |-> "brace", line |-> <<"\t", "{", "\n">>] >>
    [] entry.kind = "pair" ->
         << [kind |-> "pair",
             line |-> <<"\t">> \o Quoted(entry.key) \o <<"\t", "\t">>
                               \o Quoted(entry.value) \o <<"\n">>] >>
    [] OTHER -> << [kind |-> "close", line |-> <<"\t", "}", "\n">>] >>

RECURSIVE WrittenFrom(_, _)
WrittenFrom(manifest, n) ==
  IF n > Len(manifest)
  THEN << >>
  ELSE Written(manifest[n]) \o WrittenFrom(manifest, n + 1)

ManifestLines(manifest) ==
  LET written == WrittenFrom(manifest, 1)
  IN [i \in 1..Len(written) |-> written[i].line] \o << >>

VdfInput(manifest) == [fn |-> "manifest", manifest |-> manifest]

InitVdf ==
  /\ disk = NoFile
  /\ host = CHOOSE h \in Hosts : h.utcoffset = 0
  /\ now = StartTime
  /\ last = NoLast
  /\ call \in {VdfInput(manifest) : manifest \in Manifests}

VdfToDict ==
  /\ call.fn = "manifest"
  /\ call' = [fn |-> "_vdf_to_dict", manifest |-> call.manifest,
              result |-> _vdf_to_dict(ManifestLines(call.manifest))]
  /\ UNCHANGED <<disk, host, now, last>>

NextVdf == VdfToDict

SpecVdf == InitVdf /\ [][NextVdf]_vars

(***************************************************************************)
(* get.py, get_non_steam_apps, lines 201-269: the scan of shortcuts.vdf.   *)
(* The buffer is the sequence of the bytes of the file, a text of the      *)
(* file the sequence of its bytes, and the cursor counts from 0.  The      *)
(* state of the scan is [cursor, cursor_moved, shortcut_id,                *)
(* shortcuts_dict, raised]; shortcuts_dict[shortcut_id] of a shortcut      *)
(* that was never opened raises KeyError.  An app ID is the number whose   *)
(* big-endian bytes are the four bytes after the tag in reverse followed   *)
(* by 2, 0, 0, 0, kept as these bytes without the leading zeros.           *)
(***************************************************************************)
Slice(buffer, from, to) == SubSeq(buffer, from + 1, Min(to, Len(buffer)))

RECURSIVE Reversed(_)
Reversed(bytes) ==
  IF bytes = << >> THEN << >> ELSE Append(Reversed(Tail(bytes)), Head(bytes))

RECURSIVE FromBytes(_)
FromBytes(bytes) ==
  IF bytes # << >> /\ Head(bytes) = 0 THEN FromBytes(Tail(bytes)) ELSE bytes

RECURSIVE LittleEndian(_)
LittleEndian(bytes) ==
  IF bytes = << >> THEN 0 ELSE Head(bytes) + 256 * LittleEndian(Tail(bytes))

Decoded(bytes) == SelectSeq(bytes, LAMBDA b : b < 128)

RECURSIVE Stripped(_)
Stripped(bytes) ==
  IF bytes # << >> /\ Head(bytes) \in {9, 10, 13, 32}
  THEN Stripped(Tail(bytes))
  ELSE IF bytes # << >> /\ bytes[Len(bytes)] \in {9, 10, 13, 32}
       THEN Stripped(SubSeq(bytes, 1, Len(bytes) - 1))
       ELSE bytes

ShortcutTag(shortcut_id) == <<0, 48 + shortcut_id, 0>>

AppIdTag == <<2, 97, 112, 112, 105, 100, 0>>

AppNameTag == <<1, 65, 112, 112, 78, 97, 109, 101, 0>>

ExeTag == <<1, 69, 120, 101, 0>>

LastPlayTimeTag == <<2, 76, 97, 115, 116, 80, 108, 97, 121, 84, 105, 109, 101, 0>>

cursor_match(buffer, st, string) ==
  ~st.raised /\ Decoded(Slice(buffer, st.cursor, st.cursor + Len(string))) = string

Matched(st, string) ==
  [st EXCEPT !.cursor = @ + Len(string), !.cursor_moved = TRUE]

Tagged(st, key, value, cursor) ==
  IF st.shortcut_id \notin DOMAIN st.shortcuts_dict
  THEN [st EXCEPT !.raised = TRUE]
  ELSE [st EXCEPT !.shortcuts_dict[st.shortcut_id] = Put(@, key, value),
                  !.cursor = cursor]

RECURSIVE NullFrom(_, _)
NullFrom(buffer, cursor) ==
  IF cursor < Len(buffer) /\ buffer[cursor + 1] # 0
  THEN NullFrom(buffer, cursor + 1)
  ELSE cursor

ShortcutMatch(buffer, st) ==
  IF cursor_match(buffer, st, ShortcutTag(st.shortcut_id + 1))
  THEN [Matched(st, ShortcutTag(st.shortcut_id + 1)) EXCEPT
          !.shortcut_id = @ + 1,
          !.shortcuts_dict = Put(@, st.shortcut_id + 1, EmptyDict)]
  ELSE st

AppIdMatch(buffer, st) ==
  IF cursor_match(buffer, st, AppIdTag)
  THEN LET at == Matched(st, AppIdTag)
       IN Tagged(at, "app_id",
                 FromBytes(Reversed(Slice(buffer, at.cursor, at.cursor + 4))
                             \o <<2, 0, 0, 0>>),
                 at.cursor + 4)
  ELSE st

AppNameMatch(buffer, st) ==
  IF cursor_match(buffer, st, AppNameTag)
  THEN LET at == Matched(st, AppNameTag)
           end == NullFrom(buffer, at.cursor)
       IN Tagged(at, "name", Some(Decoded(Slice(buffer, at.cursor, end))), end + 1)
  ELSE st

(***************************************************************************)
(* get.py, get_non_steam_apps, lines 239-259: off Windows the path is      *)
(* replaced by the output of "which", the path found and a line feed,      *)
(* when which finds it; isfile and getsize answer from the files of the    *)
(* host (path -> [size, executable]).                                      *)
(***************************************************************************)
Located(exe, os_name, files) ==
  IF os_name # "nt" /\ exe \in DOMAIN files /\ files[exe].executable
  THEN exe \o <<10>>
  ELSE exe

ExeFound(st, exe, files, cursor) ==
  IF st.shortcut_id \notin DOMAIN st.shortcuts_dict
  THEN [st EXCEPT !.raised = TRUE]
  ELSE [st EXCEPT
          !.shortcuts_dict[st.shortcut_id] =
             Put(Put(@, "exe", IF exe \in DOMAIN files THEN Some(exe) ELSE None),
                 "size_on_disk", IF exe \in DOMAIN files THEN Some(files[exe].size) ELSE None),
          !.cursor = cursor]

ExeMatch(buffer, st, os_name, files) ==
  IF cursor_match(buffer, st, ExeTag)
  THEN LET at == Matched(st, ExeTag)
           end == NullFrom(buffer, at.cursor)
       IN ExeFound(at, Located(Stripped(Decoded(Slice(buffer, at.cursor, end))),
                               os_name, files),
                   files, end + 1)
  ELSE st

LastPlayTimeMatch(buffer, st) ==
  IF cursor_match(buffer, st, LastPlayTimeTag)
  THEN LET at == Matched(st, LastPlayTimeTag)
           launched_int == LittleEndian(Slice(buffer, at.cursor, at.cursor + 4))
       IN Tagged(at, "launched", IF launched_int # 0 THEN Some(launched_int) ELSE None,
                 at.cursor + 4)
  ELSE st

Unmoved(st) ==
  IF ~st.raised /\ ~st.cursor_moved THEN [st EXCEPT !.cursor = @ + 1] ELSE st

(***************************************************************************)
(* One iteration of the loop: the five tests in the order of the source,   *)
(* each on the state the one before it left (bound once), then the step    *)
(* of one byte of lines 268-269.  ScanStepHeld is the iteration without    *)
(* that last step.                                                         *)
(***************************************************************************)
ScanStepHeld(buffer, st, os_name, files) ==
  Only({LastPlayTimeMatch(buffer, exe) : exe \in
         {ExeMatch(buffer, name, os_name, files) : name \in
            {AppNameMatch(buffer, id) : id \in
               {AppIdMatch(buffer, marked) : marked \in
                  {ShortcutMatch(buffer, [st EXCEPT !.cursor_moved = FALSE])}}}}})

ScanStep(buffer, st, os_name, files) ==
  Only({Unmoved(launched) : launched \in
      {LastPlayTimeMatch(buffer, exe) : exe \in
            {ExeMatch(buffer, name, os_name, files) : name \in
               {AppNameMatch(buffer, id) : id \in
                  {AppIdMatch(buffer, marked) : marked \in
                     {ShortcutMatch(buffer, [st EXCEPT !.cursor_moved = FALSE])}}}}}})

RECURSIVE ScanLoop(_, _, _, _)
ScanLoop(buffer, st, os_name, files) ==
  IF st.raised \/ st.cursor >= Len(buffer)
  THEN st
  ELSE ScanLoop(buffer, ScanStep(buffer, st, os_name, files), os_name, files)

ScanStart ==
  [cursor |-> 11, cursor_moved |-> FALSE, shortcut_id |-> -1,
   shortcuts_dict |-> EmptyDict, raised |-> FALSE]

Collected(scan, app_blacklist) ==
  IF scan.raised
  THEN [raised |-> TRUE, apps |-> EmptyDict]
  ELSE get_non_steam_apps(scan.shortcuts_dict, app_blacklist)

NonSteamAppsOf(buffer, app_blacklist, os_name, files) ==
  Collected(ScanLoop(buffer, ScanStart, os_name, files), app_blacklist)

(***************************************************************************)
(* The shortcut files get_non_steam_apps is applied to.  A well-formed     *)
(* file is the header of 11 bytes, the shortcuts in the order of their     *)
(* indices, each with its app ID, name, executable and last play time,     *)
(* and the two closing bytes; the others are the empty file and files      *)
(* whose first 11 bytes are not the header, with anything behind.          *)
(***************************************************************************)
MaxShortcuts == 2

ShortcutsHeader == <<0, 115, 104, 111, 114, 116, 99, 117, 116, 115, 0>>

ForeignHeader == <<0, 115, 104, 111, 114, 116, 99, 117, 116, 115, 1>>

ShortcutRecords ==
  { [appid |-> <<1, 0, 0, 0>>, name |-> <<71>>, exe |-> <<47, 120>>,
     launched |-> <<0, 0, 0, 0>>],
    [appid |-> <<2, 0, 0, 0>>, name |-> <<72>>, exe |-> <<47, 121>>,
     launched |-> <<5, 0, 0, 0>>],
    [appid |-> <<3, 1, 0, 0>>, name |-> <<71>>, exe |-> <<32, 47, 122>>,
     launched |-> <<1, 0, 0, 0>>] }

HostFiles ==
  (<<47, 120>> :> [size |-> 5, executable |-> TRUE])
    @@ (<<47, 122>> :> [size |-> 7, executable |-> FALSE])

GameId(appid) == FromBytes(Reversed(appid) \o <<2, 0, 0, 0>>)

EncodedShortcut(index, record) ==
  ShortcutTag(index) \o AppIdTag \o record.appid
    \o AppNameTag \o record.name \o <<0>>
    \o ExeTag \o record.exe \o <<0>>
    \o LastPlayTimeTag \o record.launched \o <<8>>

RECURSIVE EncodedFrom(_, _)
EncodedFrom(records, n) ==
  IF n > Len(records)
  THEN <<8, 8>>
  ELSE EncodedShortcut(n - 1, records[n]) \o EncodedFrom(records, n + 1)

ShortcutLists ==
  {records \in UNION {[1..n -> ShortcutRecords] : n \in 0..MaxShortcuts} :
     \A i, j \in 1..Len(records) : i # j => records[i].appid # records[j].appid}

BlobFile(records) ==
  [kind |-> "blob", records |-> records,
   buffer |-> ShortcutsHeader \o EncodedFrom(records, 1)]

ForeignFile(header, rest) ==
  [kind |-> "foreign", records |-> << >>, buffer |-> header \o rest]

EmptyShortcutFile == [kind |-> "empty", records |-> << >>, buffer |-> << >>]

ForeignRests ==
  {EncodedFrom(records, 1) : records \in ShortcutLists}
    \cup { << >>, <<8, 8>>, ShortcutTag(0) \o <<8, 8>>, AppIdTag \o <<1, 0, 0, 0>>,
           AppNameTag \o <<71, 0>>, ShortcutTag(1) \o AppIdTag \o <<1, 0, 0, 0>> }

ShortcutFiles ==
  {BlobFile(records) : records \in ShortcutLists}
    \cup {ForeignFile(ForeignHeader, rest) : rest \in ForeignRests}
    \cup {EmptyShortcutFile, ForeignFile(<<0, 115>>, << >>)}

ShortcutBlacklists == {{}, {GameId(<<1, 0, 0, 0>>)}, {GameId(<<2, 0, 0, 0>>), <<7>>}}

ShortcutsInput(file, app_blacklist) ==
  [fn |-> "shortcuts", file |-> file, app_blacklist |-> app_blacklist]

InitShortcuts ==
  /\ disk = NoFile
  /\ host \in Hosts
  /\ now = StartTime
  /\ last = NoLast
  /\ call \in {ShortcutsInput(file, app_blacklist) :
                 file \in ShortcutFiles, app_blacklist \in ShortcutBlacklists}

GetNonSteamApps ==
  /\ call.fn = "shortcuts"
  /\ call' = [fn |-> "get_non_steam_apps", file |-> call.file,
              app_blacklist |-> call.app_blacklist,
              result |-> NonSteamAppsOf(call.file.buffer, call.app_blacklist,
                                        host.os_name, HostFiles)]
  /\ UNCHANGED <<disk, host, now, last>>

NextShortcuts == GetNonSteamApps

SpecShortcuts == InitShortcuts /\ [][NextShortcuts]_vars

(***************************************************************************)
(* cache.py, str_to_timedelta, lines 116-173.  The string is a text.       *)
(* re.findall is modelled by its scan: at each index it tries an optional  *)
(* minus sign, a run of digits, an optional point with a run of digits,    *)
(* and the first of the units y, mo, w, d, h, m, s, ms, us, in this        *)
(* order, that is not followed by a lowercase letter; after a match it     *)
(* goes on behind the match, otherwise one character further.  A number    *)
(* is [num, scale], num / 10^scale.  The floats of the code are summed     *)
(* exactly, in whole seconds and billionths, and timedelta rounds the sum  *)
(* to microseconds, half to even; the result is [delta, warnings], delta   *)
(* being [days, seconds, microseconds] as timedelta keeps it and warnings  *)
(* the number of calls of log.warning.                                     *)
(***************************************************************************)
DigitValue ==
  ("0" :> 0) @@ ("1" :> 1) @@ ("2" :> 2) @@ ("3" :> 3) @@ ("4" :> 4) @@ ("5" :> 5)
  @@ ("6" :> 6) @@ ("7" :> 7) @@ ("8" :> 8) @@ ("9" :> 9)

LowerCase ==
  {"a", "b", "c", "d", "e", "f", "g", "h", "i", "j", "k", "l", "m", "n", "o", "p", "q",
   "r", "s", "t", "u", "v", "w", "x", "y", "z"}

TimeUnits ==
  << <<"y">>, <<"m", "o">>, <<"w">>, <<"d">>, <<"h">>, <<"m">>, <<"s">>, <<"m", "s">>,
     <<"u", "s">> >>

RECURSIVE DigitsEnd(_, _)
DigitsEnd(text, i) ==
  IF i <= Len(text) /\ text[i] \in DOMAIN DigitValue THEN DigitsEnd(text, i + 1) ELSE i

UnitAt(text, i, unit) ==
  /\ SubSeq(text, i, Min(i + Len(unit) - 1, Len(text))) = unit
  /\ ~(i + Len(unit) <= Len(text) /\ text[i + Len(unit)] \in LowerCase)

UnitEnd(text, i) ==
  LET found == {u \in 1..Len(TimeUnits) : UnitAt(text, i, TimeUnits[u])}
  IN IF found = {}
     THEN 0
     ELSE i + Len(TimeUnits[CHOOSE u \in found : \A other \in found : u <= other])

MatchEnd(text, i) ==
  LET digits == IF text[i] = "-" THEN i + 1 ELSE i
      whole == DigitsEnd(text, digits)
      fraction == IF whole <= Len(text) /\ text[whole] = "."
                  THEN DigitsEnd(text, whole + 1)
                  ELSE whole
  IN IF whole = digits
     THEN 0
     ELSE IF fraction > whole + 1 /\ UnitEnd(text, fraction) # 0
          THEN UnitEnd(text, fraction)
          ELSE UnitEnd(text, whole)

RECURSIVE re_findall(_, _)
re_findall(text, i) ==
  IF i > Len(text)
  THEN << >>
  ELSE IF MatchEnd(text, i) # 0
       THEN <<SubSeq(text, i, MatchEnd(text, i) - 1)>> \o re_findall(text, MatchEnd(text, i))
       ELSE re_findall(text, i + 1)

endswith(text, suffix) ==
  Len(suffix) <= Len(text) /\ SubSeq(text, Len(text) - Len(suffix) + 1, Len(text)) = suffix

RECURSIVE Unsigned(_)
Unsigned(text) ==
  IF text = << >>
  THEN [num |-> 0, scale |-> 0, point |-> FALSE]
  ELSE LET rest == Unsigned(SubSeq(text, 1, Len(text) - 1))
       IN IF text[Len(text)] = "."
          THEN [rest EXCEPT !.point = TRUE]
          ELSE [num |-> rest.num * 10 + DigitValue[text[Len(text)]],
                scale |-> IF rest.point THEN rest.scale + 1 ELSE 0,
                point |-> rest.point]

float(text) ==
  IF text # << >> /\ Head(text) = "-"
  THEN [Unsigned(Tail(text)) EXCEPT !.num = -@]
  ELSE Unsigned(text)

Billion == 1000000000

Seconds(number, per_unit) ==
  [s |-> (number.num * per_unit) \div Power10(number.scale),
   n |-> ((number.num * per_unit) % Power10(number.scale))
           * (Billion \div Power10(number.scale))]

Billionths(number, per_unit) ==
  [s |-> ((number.num * per_unit) \div Power10(number.scale)) \div Billion,
   n |-> ((number.num * per_unit) \div Power10(number.scale)) % Billion]

TimeString(time_string) ==
  LET cut(k) == float(SubSeq(time_string, 1, Len(time_string) - k))
  IN CASE endswith(time_string, <<"y">>) -> Seconds(cut(1), 365 * 86400)
       [] endswith(time_string, <<"m", "o">>) -> Seconds(cut(2), 30 * 86400)
       [] endswith(time_string, <<"w">>) -> Seconds(cut(1), 7 * 86400)
       [] endswith(time_string, <<"d">>) -> Seconds(cut(1), 86400)
       [] endswith(time_string, <<"h">>) -> Seconds(cut(1), 3600)
       [] endswith(time_string, <<"m">>) -> Seconds(cut(1), 60)
       [] endswith(time_string, <<"m", "s">>) -> Billionths(cut(2), 1000000)
       [] endswith(time_string, <<"u", "s">>) -> Billionths(cut(2), 1000)
       [] endswith(time_string, <<"s">>) -> Seconds(cut(1), 1)
       [] OTHER -> [s |-> 0, n |-> 0, warning |-> TRUE]

RECURSIVE TimeStrings(_, _)
TimeStrings(time_strings, i) ==
  IF i > Len(time_strings)
  THEN [s |-> 0, n |-> 0, warnings |-> 0]
  ELSE LET one == TimeString(time_strings[i])
           rest == TimeStrings(time_strings, i + 1)
       IN [s |-> one.s + rest.s + (one.n + rest.n) \div Billion,
           n |-> (one.n + rest.n) % Billion,
           warnings |-> rest.warnings + IF "warning" \in DOMAIN one THEN 1 ELSE 0]

timedelta(s, n) ==
  LET down == n \div 1000
      left == n % 1000
      micro == IF left > 500 \/ (left = 500 /\ down % 2 = 1) THEN down + 1 ELSE down
      secs == s + micro \div 1000000
  IN [days |-> secs \div 86400, seconds |-> secs % 86400,
      microseconds |-> micro % 1000000]

str_to_timedelta(string) ==
  IF string = << >>
  THEN [delta |-> timedelta(0, 0), warnings |-> 0]
  ELSE LET sum == TimeStrings(re_findall(string, 1), 1)
       IN [delta |-> timedelta(sum.s, sum.n), warnings |-> sum.warnings]

(***************************************************************************)
(* The strings str_to_timedelta is applied to: up to MaxTokens tokens in   *)
(* a row, each a number followed by letters.  A token is [text, known,     *)
(* is]: its text, whether its letters are one of the units, and the        *)
(* duration it stands for in [days, seconds, microseconds].                *)
(***************************************************************************)
MaxTokens == 2

Duration(d, s, us) == [days |-> d, seconds |-> s, microseconds |-> us]

Token(text, known, is) == [text |-> text, known |-> known, is |-> is]

Tokens ==
  { Token(<<"1", "h">>, TRUE, Duration(0, 3600, 0)),
    Token(<<"3", "0", "m">>, TRUE, Duration(0, 1800, 0)),
    Token(<<"2", "d">>, TRUE, Duration(2, 0, 0)),
    Token(<<"1", ".", "5", "s">>, TRUE, Duration(0, 1, 500000)),
    Token(<<"-", "1", "w">>, TRUE, Duration(-7, 0, 0)),
    Token(<<"1", "y">>, TRUE, Duration(365, 0, 0)),
    Token(<<"2", "m", "o">>, TRUE, Duration(60, 0, 0)),
    Token(<<"5", "m", "s">>, TRUE, Duration(0, 0, 5000)),
    Token(<<"3", "u", "s">>, TRUE, Duration(0, 0, 3)),
    Token(<<"5", "x">>, FALSE, Duration(0, 0, 0)),
    Token(<<"1", "m", "i", "n">>, FALSE, Duration(0, 0, 0)),
    Token(<<"5", "d", "X">>, FALSE, Duration(0, 0, 0)) }

TokenLists == UNION {[1..n -> Tokens] : n \in 0..MaxTokens}

RECURSIVE TextOf(_, _)
TextOf(tokens, i) ==
  IF i > Len(tokens) THEN << >> ELSE tokens[i].text \o TextOf(tokens, i + 1)

DurationInput(tokens) == [fn |-> "duration", tokens |-> tokens]

InitDuration ==
  /\ disk = NoFile
  /\ host = CHOOSE h \in Hosts : h.utcoffset = 0
  /\ now = StartTime
  /\ last = NoLast
  /\ call \in {DurationInput(tokens) : tokens \in TokenLists}

StrToTimedelta ==
  /\ call.fn = "duration"
  /\ call' = [fn |-> "str_to_timedelta", tokens |-> call.tokens,
              result |-> str_to_timedelta(TextOf(call.tokens, 1))]
  /\ UNCHANGED <<disk, host, now, last>>

NextDuration == StrToTimedelta

SpecDuration == InitDuration /\ [][NextDuration]_vars

(***************************************************************************)
(* get.py, _get_response_from_steam_api, lines 289-322.  The response is   *)
(* the text of the body.  json.loads is modelled by its parse of objects,  *)
(* arrays, strings without escapes and whole numbers, with white space     *)
(* where JSON allows it; a parse is [ok, next, value], and a value is      *)
(* [object |-> keys to values], [array |-> sequence], [string |-> text]    *)
(* or [number |-> n].  The result is [raised, message, value]: raised is   *)
(* "" or the name of the exception class.                                  *)
(***************************************************************************)
UnauthorizedPage ==
  <<"<", "h", "t", "m", "l", ">", "<", "h", "e", "a", "d", ">", "<", "t",
     "i", "t", "l", "e", ">", "U", "n", "a", "u", "t", "h", "o", "r", "i",
     "z", "e", "d", "<", "/", "t", "i", "t", "l", "e", ">", "<", "/", "h",
     "e", "a", "d", ">", "<", "b", "o", "d", "y", ">", "<", "h", "1", ">",
     "U", "n", "a", "u", "t", "h", "o", "r", "i", "z", "e", "d", "<", "/",
     "h", "1", ">", "A", "c", "c", "e", "s", "s", " ", "i", "s", " ", "d",
     "e", "n", "i", "e", "d", ".", " ", "R", "e", "t", "r", "y", "i", "n",
     "g", " ", "w", "i", "l", "l", " ", "n", "o", "t", " ", "h", "e", "l",
     "p", ".", " ", "P", "l", "e", "a", "s", "e", " ", "v", "e", "r", "i",
     "f", "y", " ", "y", "o", "u", "r", " ", "<", "p", "r", "e", ">", "k",
     "e", "y", "=", "<", "/", "p", "r", "e", ">", " ", "p", "a", "r", "a",
     "m", "e", "t", "e", "r", ".", "<", "/", "b", "o", "d", "y", ">", "<",
     "/", "h", "t", "m", "l", ">">>

BadRequestPage ==
  <<"<", "h", "t", "m", "l", ">", "<", "h", "e", "a", "d", ">", "<", "t",
     "i", "t", "l", "e", ">", "B", "a", "d", " ", "R", "e", "q", "u", "e",
     "s", "t", "<", "/", "t", "i", "t", "l", "e", ">", "<", "/", "h", "e",
     "a", "d", ">", "<", "b", "o", "d", "y", ">", "<", "h", "1", ">", "B",
     "a", "d", " ", "R", "e", "q", "u", "e", "s", "t", "<", "/", "h", "1",
     ">", "P", "l", "e", "a", "s", "e", " ", "v", "e", "r", "i", "f", "y",
     " ", "t", "h", "a", "t", " ", "a", "l", "l", " ", "r", "e", "q", "u",
     "i", "r", "e", "d", " ", "p", "a", "r", "a", "m", "e", "t", "e", "r",
     "s", " ", "a", "r", "e", " ", "b", "e", "i", "n", "g", " ", "s", "e",
     "n", "t", "<", "/", "b", "o", "d", "y", ">", "<", "/", "h", "t", "m",
     "l", ">">>

HtmlTag == <<"<", "h", "t", "m", "l", ">">>

NoParse == [ok |-> FALSE, next |-> 0, value |-> None]

Parsed(value, next) == [ok |-> TRUE, next |-> next, value |-> value]

RECURSIVE SkipSpace(_, _)
SkipSpace(text, i) ==
  IF i <= Len(text) /\ text[i] \in {" ", "\t", "\n", "\r"} THEN SkipSpace(text, i + 1) ELSE i

RECURSIVE QuoteFrom(_, _)
QuoteFrom(text, i) ==
  IF i > Len(text) THEN 0 ELSE IF text[i] = "\"" THEN i ELSE QuoteFrom(text, i + 1)

ParseString(text, i) ==
  IF i > Len(text) \/ text[i] # "\"" \/ QuoteFrom(text, i + 1) = 0
  THEN NoParse
  ELSE Parsed([string |-> SubSeq(text, i + 1, QuoteFrom(text, i + 1) - 1)],
              QuoteFrom(text, i + 1) + 1)

ParseNumber(text, i) ==
  IF text[i] = "0"
  THEN Parsed([number |-> 0], i + 1)
  ELSE Parsed([number |-> Unsigned(SubSeq(text, i, DigitsEnd(text, i) - 1)).num],
              DigitsEnd(text, i))

RECURSIVE ParseValue(_, _)
RECURSIVE ParseMembers(_, _, _)
RECURSIVE ParseElements(_, _, _)
AfterMember(text, key, acc, member) ==
  LET after == SkipSpace(text, member.next)
      object == Put(acc, key, member.value)
  IN IF ~member.ok \/ after > Len(text)
     THEN NoParse
     ELSE IF text[after] = "}"
          THEN Parsed([object |-> object], after + 1)
          ELSE IF text[after] = ","
               THEN ParseMembers(text, SkipSpace(text, after + 1), object)
               ELSE NoParse

ParseMembers(text, i, acc) ==
  LET key == ParseString(text, i)
      colon == SkipSpace(text, key.next)
  IN IF ~key.ok \/ colon > Len(text) \/ text[colon] # ":"
     THEN NoParse
     ELSE AfterMember(text, key.value.string, acc,
                      ParseValue(text, SkipSpace(text, colon + 1)))

AfterElement(text, acc, element) ==
  LET after == SkipSpace(text, element.next)
      array == Append(acc, element.value)
  IN IF ~element.ok \/ after > Len(text)
     THEN NoParse
     ELSE IF text[after] = "]"
          THEN Parsed([array |-> array], after + 1)
          ELSE IF text[after] = ","
               THEN ParseElements(text, SkipSpace(text, after + 1), array)
               ELSE NoParse

ParseElements(text, i, acc) == AfterElement(text, acc, ParseValue(text, i))

ParseValue(text, i) ==
  IF i > Len(text)
  THEN NoParse
  ELSE CASE text[i] = "{" ->
              LET first == SkipSpace(text, i + 1)
              IN IF first <= Len(text) /\ text[first] = "}"
                 THEN Parsed([object |-> EmptyDict], first + 1)
                 ELSE ParseMembers(text, first, EmptyDict)
         [] text[i] = "[" ->
              LET first == SkipSpace(text, i + 1)
              IN IF first <= Len(text) /\ text[first] = "]"
                 THEN Parsed([array |-> << >>], first + 1)
                 ELSE ParseElements(text, first, << >>)
         [] text[i] = "\"" -> ParseString(text, i)
         [] text[i] \in DOMAIN DigitValue -> ParseNumber(text, i)
         [] OTHER -> NoParse

json_loads(text) ==
  LET parse == ParseValue(text, SkipSpace(text, 1))
  IN IF parse.ok /\ SkipSpace(text, parse.next) > Len(text)
     THEN [raised |-> "", message |-> "", value |-> Some(parse.value)]
     ELSE [raised |-> "JSONDecodeError", message |-> "json", value |-> None]

Raise(class, message) == [raised |-> class, message |-> message, value |-> None]

_get_response_from_steam_api(response) ==
  IF response = UnauthorizedPage
  THEN Raise("ValueError", "Steam API key is invalid")
  ELSE IF response = BadRequestPage
       THEN Raise("ValueError", "Parameters sent to Steam API are invalid")
       ELSE IF StartsWith(response, HtmlTag)
            THEN Raise("ConnectionError", "Unknown error with Steam API")
            ELSE json_loads(response)

(***************************************************************************)
(* The bodies the Steam API answers with: the two fixed pages, every text  *)
(* of at most MaxBody characters of JSON, the same behind "<html>", and    *)
(* some longer answers.                                                    *)
(***************************************************************************)
MaxBody == 3

BodyChars == {"{", "}", "[", "]", "1", "\"", "a", ":", ",", " "}

ShortBodies == UNION {[1..n -> BodyChars] : n \in 0..MaxBody}

LongBodies ==
  { <<"{", "\"", "a", "\"", ":", "1", "}">>,
    <<"{", "\"", "a", "\"", ":", " ", "{", "}", ",", "\"", "a", "\"", ":", "[", "1", "]", "}">>,
    <<"{", "\"", "a", "\"", ":", "1", ",", "}">>,
    <<"<", "h", "t", "m", "l">>,
    <<" ">> \o HtmlTag,
    <<"E", "r", "r", "o", "r">>,
    Append(UnauthorizedPage, "\n") }

Bodies ==
  {UnauthorizedPage, BadRequestPage} \cup ShortBodies \cup LongBodies
    \cup {HtmlTag \o body : body \in ShortBodies}

InitResponse ==
  /\ disk = NoFile
  /\ host = CHOOSE h \in Hosts : h.utcoffset = 0
  /\ now = StartTime
  /\ last = NoLast
  /\ call \in {[fn |-> "response", response |-> response] : response \in Bodies}

GetResponse ==
  /\ call.fn = "response"
  /\ call' = [fn |-> "_get_response_from_steam_api", response |-> call.response,
              result |-> _get_response_from_steam_api(call.response)]
  /\ UNCHANGED <<disk, host, now, last>>

NextResponse == GetResponse

SpecResponse == InitResponse /\ [][NextResponse]_vars

(***************************************************************************)
(* Observers of cache.json used by the properties below.                   *)
(***************************************************************************)
HasItem(file, sec, key) ==
  file.exists /\ sec \in DOMAIN file.c.d /\ key \in DOMAIN file.c.d[sec].d

Item(file, sec, key) == file.c.d[sec].d[key]

HasLaunched(info) == "launched" \in DOMAIN info /\ Len(info["launched"]) >= 1

LaunchCount(info) ==
  IF "launched" \in DOMAIN info /\ Len(info["launched"]) = 2
  THEN info["launched"][2]
  ELSE 0

LastLaunched(info) == IF HasLaunched(info) THEN Some(info["launched"][1]) ELSE None

(* The record the last execute_action resolved its action to. *)
Target == Resolve(load_cache(last.pre), last.action, last.preferences, last.execute,
                  host.os_name)

(***************************************************************************)
(* C1.  For every launchable action whose record exists in the cache, one  *)
(* call of execute_action increases the record's launch count by exactly   *)
(* 1 and sets its last-launched timestamp to the current time, also when   *)
(* the record already carries an earlier timestamp.  Read on the cache     *)
(* enter.py line 137 saves.                                                *)
(***************************************************************************)
C1_ExecuteCountsAndStampsNow ==
  (last.op = "execute" /\ last.counted /\ HasItem(last.pre, Target.sec, Target.key)) =>
    LET old == Item(last.pre, Target.sec, Target.key)
        new == Item(last.saved, Target.sec, Target.key)
    IN /\ LaunchCount(new) = LaunchCount(old) + 1
       /\ LastLaunched(new) = Some(last.at)

(* C1, the half the code keeps: the launch count goes up by exactly 1. *)
C1_CountPlusOne ==
  (last.op = "execute" /\ last.counted /\ HasItem(last.pre, Target.sec, Target.key)) =>
    LaunchCount(Item(last.saved, Target.sec, Target.key))
      = LaunchCount(Item(last.pre, Target.sec, Target.key)) + 1

(***************************************************************************)
(* C2.  Across build_cache and execute_action calls other than the         *)
(* clear_cache and rebuild_cache actions, the launch count and the last-   *)
(* launched timestamp of a record that stays in the cache never decrease,  *)
(* whatever the local UTC offset.                                          *)
(***************************************************************************)
C2_Step ==
  (last'.action.s \notin {"clear_cache", "rebuild_cache"}) =>
    \A sec \in Items :
      (disk.exists /\ disk'.exists /\ sec \in DOMAIN disk.c.d /\ sec \in DOMAIN disk'.c.d) =>
        \A key \in (DOMAIN disk.c.d[sec].d) \cap (DOMAIN disk'.c.d[sec].d) :
          LET old == disk.c.d[sec].d[key]
              new == disk'.c.d[sec].d[key]
          IN /\ LaunchCount(new) >= LaunchCount(old)
             /\ HasLaunched(old) => (HasLaunched(new) /\
                                     new["launched"][1] >= old["launched"][1])

C2_UsageNeverDecreases == [][C2_Step]_vars

(***************************************************************************)
(* C3.  execute_action saves the cache with the updated usage statistics   *)
(* before it triggers the rebuild, so when the following build_cache       *)
(* raises, cache.json still holds the incremented launch count of the      *)
(* executed record.                                                        *)
(***************************************************************************)
C3_CountSurvivesFailedBuild ==
  (last.op = "execute" /\ last.counted /\ last.built /\ last.raised) =>
    /\ HasItem(disk, Target.sec, Target.key)
    /\ LaunchCount(Item(disk, Target.sec, Target.key))
         = LaunchCount(Item(last.saved, Target.sec, Target.key))

(* C3, the half the code keeps: the cache saved at line 137, before the    *)
(* rebuild starts, holds the record with its incremented count.            *)
C3_SavedBeforeBuild ==
  (last.op = "execute" /\ last.counted) =>
    /\ HasItem(last.saved, Target.sec, Target.key)
    /\ LaunchCount(Item(last.saved, Target.sec, Target.key))
         = 1 + (IF HasItem(last.pre, Target.sec, Target.key)
                THEN LaunchCount(Item(last.pre, Target.sec, Target.key))
                ELSE 0)

(***************************************************************************)
(* Observers of a build_cache call: the refresh timestamp of a category    *)
(* in a cache file, and whether the call ran the category's pass.          *)
(***************************************************************************)
Categories == {"files", "steamApi"}

ValidStamp(file, key) ==
  /\ file.exists
  /\ "extension" \in DOMAIN file.c.d
  /\ key \in DOMAIN file.c.d["extension"]
  /\ file.c.d["extension"][key] # None

Stamp(file, key) == file.c.d["extension"][key][1]

Ran(key) == IF key = "files" THEN last.build.files_ran ELSE last.build.steam_api_ran

(***************************************************************************)
(* C4.  build_cache without force, for a category whose cached timestamp   *)
(* T is valid and whose interval is I: the category is skipped (its pass   *)
(* does not run, its timestamp is not rewritten) when now < T + I, and it  *)
(* is refreshed when now >= T + I, the instant now = T + I included.       *)
(* Read on the calls that return normally.                                 *)
(***************************************************************************)
C4_StalenessRule ==
  \A key \in Categories :
    (last.op = "build" /\ ~last.force /\ ~last.raised /\ ValidStamp(last.pre, key)) =>
      LET T == Stamp(last.pre, key)
          I == wait_time(key, last.preferences)
      IN /\ last.at < T + I =>
              (~Ran(key) /\ ValidStamp(disk, key) /\ Stamp(disk, key) = T)
         /\ last.at >= T + I => Ran(key)

(***************************************************************************)
(* C5.  build_cache runs both passes when force is true, and runs a        *)
(* category's pass when the cache has no "extension" section, the section  *)
(* is not a dictionary, or the category's timestamp is missing or cannot   *)
(* be parsed, whatever the configured interval is.                         *)
(***************************************************************************)
C5_ForceAndFailOpen ==
  \A key \in Categories :
    (last.op = "build" /\ (last.force \/ ~ValidStamp(last.pre, key))) => Ran(key)

(* C5 on the calls that return normally: a timestamp that cannot be        *)
(* parsed is read as datetime.min, and the category is then skipped when   *)
(* the interval reaches from datetime.min past the current time.           *)
C5_FailOpenOnReturn ==
  \A key \in Categories :
    (last.op = "build" /\ ~last.raised /\ ~ValidStamp(last.pre, key)) => Ran(key)

(***************************************************************************)
(* Observers of the files pass of the last build_cache call.               *)
(***************************************************************************)
FilesRefreshed ==
  /\ last.op = "build"
  /\ last.build.files_ran
  /\ ~last.raised
  /\ Len(last.env.steam_folders) >= 1
  /\ disk.exists

InstalledScan ==
  UNION { DOMAIN get_installed_steam_apps(last.env.steam_folders[i].manifests,
                                          get_blacklist("app", last.preferences)) :
            i \in 1..Len(last.env.steam_folders) }

ShortcutIds ==
  { last.env.steam_folders[1].shortcuts_dict[sid]["app_id"] :
      sid \in DOMAIN last.env.steam_folders[1].shortcuts_dict }

(***************************************************************************)
(* C9.  After a files refresh, every cached Steam app that is absent from  *)
(* the installed-apps scan has neither a "dir" nor a "size" field, while   *)
(* its record, name, playtime and usage statistics are retained.           *)
(***************************************************************************)
C9_UninstalledLosesDirAndSize ==
  (FilesRefreshed /\ last.pre.exists /\ "apps" \in DOMAIN last.pre.c.d) =>
    \A key \in DOMAIN last.pre.c.d["apps"].d :
      (IsNumeric(key) /\ KeyInt[key] \notin InstalledScan) =>
        /\ HasItem(disk, "apps", key)
        /\ LET old == Item(last.pre, "apps", key)
               new == Item(disk, "apps", key)
           IN /\ "dir" \notin DOMAIN new
              /\ "size" \notin DOMAIN new
              /\ \A field \in {"name", "playtime", "launched"} :
                   field \in DOMAIN old => field \in DOMAIN new
              /\ LaunchCount(new) = LaunchCount(old)

(***************************************************************************)
(* C10.  After a files refresh whose shortcut scan succeeded, the keys of  *)
(* the nonSteam section are the non-blacklisted app IDs of the shortcut    *)
(* file.                                                                   *)
(***************************************************************************)
C10_NonSteamKeysAreScannedIds ==
  (FilesRefreshed /\ last.env.steam_folders[1].shortcuts = "ok") =>
    /\ "nonSteam" \in DOMAIN disk.c.d
    /\ \A key \in Keys(disk.c.d["nonSteam"]) : IsNumeric(key)
    /\ {KeyInt[key] : key \in Keys(disk.c.d["nonSteam"])}
         = ShortcutIds \ get_blacklist("app", last.preferences)

(***************************************************************************)
(* C6.  merge_dictionaries completes without error, and for every field    *)
(* of update without an override rule: a value that is present overwrites  *)
(* the field in source, an absent value of a field listed in del_if_none   *)
(* removes it; every other field of source keeps its value.                *)
(***************************************************************************)
C6_MergeDefaultRule ==
  (call.fn = "merge") =>
    /\ ~call.once.raised
    /\ \A j \in 1..Len(call.update) :
         LET key == call.update[j].k
             value == call.update[j].v
         IN (key \notin call.rules) =>
              /\ value # None =>
                   (key \in DOMAIN call.once.src /\ call.once.src[key] = value[1])
              /\ (value = None /\ \E i \in 1..Len(call.del_if_none) :
                                    call.del_if_none[i] = key) =>
                   key \notin DOMAIN call.once.src
    /\ \A key \in DOMAIN call.source :
         (\A j \in 1..Len(call.update) : call.update[j].k # key) =>
           IF \E i \in 1..Len(call.del_if_none) : call.del_if_none[i] = key
           THEN key \notin DOMAIN call.once.src
           ELSE key \in DOMAIN call.once.src /\ call.once.src[key] = call.source[key]

(***************************************************************************)
(* C7.  The last-launched value a build stores from the cached value and   *)
(* the collector's last-played time: the later of the two timestamps, the  *)
(* launch counter stored with the cached value kept; absent when both are  *)
(* absent.                                                                 *)
(***************************************************************************)
C7_LastPlayedIsMax ==
  (call.fn = "launches") =>
    LET old == call.old_launched
        new == call.new_launched
        out == call.launched
    IN /\ (old = None /\ new = None) => out = None
       /\ (old = None /\ new # None) => out = <<new[1]>>
       /\ (old # None /\ new = None) => out = old
       /\ (old # None /\ new # None) =>
            /\ Len(out) = Len(old)
            /\ out[1] = IF new[1] > old[1] THEN new[1] ELSE old[1]
            /\ Len(old) = 2 => out[2] = old[2]

C8_SameDictionaryLeft ==
  (call.fn = "merge2") =>
    /\ call.twice.raised = call.once.raised
    /\ call.twice.src = call.once.src

(***************************************************************************)
(* Observers of the owned-apps step of the last build_cache call: whether  *)
(* it ran, and the app records in memory before and after it.              *)
(***************************************************************************)
OwnedRan == last.built /\ last.build.owned # None

AppRecords(cache) == IF WasDict(cache, "apps") THEN cache.d["apps"].d ELSE EmptyDict

InstallFields == {"dir", "size", "launched"}

(***************************************************************************)
(* C11.  The owned-apps step of build_cache never removes an app record    *)
(* and never adds, removes or changes the "dir", "size" or "launched"      *)
(* field of an app record.                                                 *)
(***************************************************************************)
C11_OwnedPassKeepsInstallFields ==
  OwnedRan =>
    LET before == AppRecords(last.build.owned[1].before)
        after == AppRecords(last.build.owned[1].after)
    IN /\ DOMAIN before \subseteq DOMAIN after
       /\ \A key \in DOMAIN after : \A field \in InstallFields :
            IF key \in DOMAIN before /\ field \in DOMAIN before[key]
            THEN field \in DOMAIN after[key] /\ after[key][field] = before[key][field]
            ELSE field \notin DOMAIN after[key]

(* An owned app whose cached record carries all three fields was rewritten. *)
C11_OwnedAppRewritten ==
  /\ OwnedRan
  /\ 1 \in DOMAIN last.env.api.owned
  /\ "1" \in DOMAIN AppRecords(last.build.owned[1].before)
  /\ InstallFields \subseteq DOMAIN AppRecords(last.build.owned[1].before)["1"]
  /\ AppRecords(last.build.owned[1].after)["1"]["playtime"] = 9

(***************************************************************************)
(* Observers of the collectors of the last build_cache call: a section of  *)
(* a cache file, and the collectors that failed in a pass that ran.        *)
(***************************************************************************)
Section(file, sec) ==
  IF file.exists /\ sec \in DOMAIN file.c.d THEN file.c.d[sec] ELSE EmptyDicts

FilesPassRan == last.built /\ last.build.files_ran /\ Len(last.env.steam_folders) >= 1

ShortcutsFailed == FilesPassRan /\ last.env.steam_folders[1].shortcuts = "raise"

ScanFailed ==
  /\ FilesPassRan
  /\ \A i \in 1..Len(last.env.steam_folders) : last.env.steam_folders[i].scan = "raise"

ApiRequestsFailed ==
  last.built /\ last.build.steam_api_ran /\ last.env.api = ApiEmpty

(***************************************************************************)
(* C12.  When a collector fails during build_cache, the cached data of     *)
(* its category is left as it was: a failed shortcut decoding leaves the   *)
(* nonSteam section unchanged, a failed manifest scan leaves the "dir"     *)
(* and "size" of every cached app unchanged, and failed Steam API          *)
(* requests leave the friends section unchanged.                           *)
(***************************************************************************)
C12_FailureLeavesCategory ==
  /\ ShortcutsFailed => Section(disk, "nonSteam") = Section(last.pre, "nonSteam")
  /\ ScanFailed =>
       \A key \in DOMAIN Section(last.pre, "apps").d : \A field \in {"dir", "size"} :
         field \in DOMAIN Section(last.pre, "apps").d[key] =>
           /\ key \in DOMAIN Section(disk, "apps").d
           /\ field \in DOMAIN Section(disk, "apps").d[key]
           /\ Section(disk, "apps").d[key][field] = Section(last.pre, "apps").d[key][field]
  /\ ApiRequestsFailed => Section(disk, "friends") = Section(last.pre, "friends")

(***************************************************************************)
(* Observers for C13: some collector of the last build_cache call failed   *)
(* in a pass that ran; the call was given a well-formed cache file and     *)
(* complete preferences.                                                   *)
(***************************************************************************)
CollectorFailed ==
  \/ ShortcutsFailed
  \/ FilesPassRan /\ \E i \in 1..Len(last.env.steam_folders) :
                        last.env.steam_folders[i].scan = "raise"
  \/ ApiRequestsFailed

WellFormedCall ==
  last.op = "build" /\ last.pre \in InitFiles /\ check_required_preferences(last.preferences)

(***************************************************************************)
(* C13.  A failure of one collector does not abort build_cache: the call   *)
(* returns normally, the Steam API pass runs when it is due, and what the  *)
(* other collectors returned is in cache.json: every owned app with its    *)
(* playtime, every listed friend that is not blacklisted.                  *)
(***************************************************************************)
C13_FailureDoesNotAbort ==
  (WellFormedCall /\ CollectorFailed) =>
    /\ ~last.raised
    /\ (last.build.update_from_steam_api \/ last.force) => last.build.steam_api_ran
    /\ (last.build.steam_api_ran /\ get_steamid64(last.env.api) # None) =>
         /\ \A id \in DOMAIN last.env.api.owned :
              /\ StrOf(id) \in DOMAIN Section(disk, "apps").d
              /\ Section(disk, "apps").d[StrOf(id)]["playtime"]
                   = last.env.api.owned[id].playtime
         /\ \A id \in (DOMAIN last.env.api.friends)
                         \ get_blacklist("friend", last.preferences) :
              StrOf(id) \in DOMAIN Section(disk, "friends").d

(***************************************************************************)
(* C14.  After a build_cache call that refreshed both categories and       *)
(* returned normally, no ID of the app blacklist is a key of the apps or   *)
(* nonSteam section of cache.json and no ID of the friend blacklist is a   *)
(* key of its friends section.                                             *)
(***************************************************************************)
C14_BlacklistedPruned ==
  (WellFormedCall /\ ~last.raised /\ FilesPassRan /\ last.build.steam_api_ran) =>
    /\ \A id \in get_blacklist("app", last.preferences) :
         /\ StrOf(id) \notin DOMAIN Section(disk, "apps").d
         /\ StrOf(id) \notin DOMAIN Section(disk, "nonSteam").d
    /\ \A id \in get_blacklist("friend", last.preferences) :
         StrOf(id) \notin DOMAIN Section(disk, "friends").d

(***************************************************************************)
(* Observers for C18: the dictionary in memory after the non-Steam apps    *)
(* step of the first Steam folder of the last build_cache call, and a      *)
(* call that raised in the files pass.                                     *)
(***************************************************************************)
NonSteamDone ==
  NonSteamStep([cache |-> ensure_dict_key_is_dict(load_cache(last.pre), "extension",
                                                  EmptyDict),
                updated |-> FALSE, raised |-> FALSE],
               last.env.steam_folders[1], get_blacklist("app", last.preferences),
               last.at)

FilesPassRaised ==
  WellFormedCall /\ FilesPassRan /\ last.raised /\ ~last.build.steam_api_ran

(***************************************************************************)
(* C18.  When build_cache is interrupted by an exception in the files      *)
(* pass after the non-Steam apps update of the first Steam folder has      *)
(* completed, cache.json holds that update: its nonSteam section is the    *)
(* one the completed update produced.                                      *)
(***************************************************************************)
C18_CompletedUpdatesPersisted ==
  (FilesPassRaised /\ ~NonSteamDone.raised) =>
    Section(disk, "nonSteam") = Section(save_cache(NonSteamDone.cache), "nonSteam")

(***************************************************************************)
(* Observers for C15: the blacklist an item is subject to, by its type     *)
(* and, for a navigation expanded for an ID, by the modifier of the        *)
(* navigation its name starts with; and the IDs of the last query's        *)
(* persisted cache that are blacklisted.                                   *)
(***************************************************************************)
ExpandedFrom(item, modifier) ==
  /\ item.type = "nav"
  /\ \E n \in 1..Len(STEAM_NAVIGATIONS) :
       /\ STEAM_NAVIGATIONS[n].modifier = modifier
       /\ StartsWith(item.chars, Chars[STEAM_NAVIGATIONS[n].head])

BlacklistOf(item, preferences) ==
  IF item.type = "app" \/ ExpandedFrom(item, "%a")
  THEN get_blacklist("app", preferences)
  ELSE IF item.type = "friend" \/ ExpandedFrom(item, "%f")
       THEN get_blacklist("friend", preferences)
       ELSE {}

CachedBlacklisted(sec, kind) ==
  {key \in DOMAIN Section(last.pre, sec).d :
     IsNumeric(key) /\ KeyInt[key] \in get_blacklist(kind, last.preferences)}

(***************************************************************************)
(* C15.  No item query_cache returns refers to a blacklisted ID: an app    *)
(* item or a navigation item expanded for an app has no ID of the app      *)
(* blacklist, a friend item or a navigation item expanded for a friend     *)
(* has no ID of the friend blacklist.                                      *)
(***************************************************************************)
C15_NoBlacklistedItem ==
  call.fn = "query" =>
    \A i \in 1..Len(call.items) :
      call.items[i].id # None =>
        call.items[i].id[1] \notin BlacklistOf(call.items[i], last.preferences)

(***************************************************************************)
(* Witness of C15: a query of a cache that holds a blacklisted app and a   *)
(* blacklisted friend returned an app, a friend, and a navigation of an    *)
(* app and one of a friend, each of another ID.                            *)
(***************************************************************************)
C15_BlacklistedLeftOut ==
  /\ call.fn = "query"
  /\ ~call.raised
  /\ CachedBlacklisted("apps", "app") # {}
  /\ CachedBlacklisted("friends", "friend") # {}
  /\ \E i \in 1..Len(call.items) : call.items[i].type = "app"
  /\ \E i \in 1..Len(call.items) : call.items[i].type = "friend"
  /\ \E i \in 1..Len(call.items) : ExpandedFrom(call.items[i], "%a")
  /\ \E i \in 1..Len(call.items) : ExpandedFrom(call.items[i], "%f")

(***************************************************************************)
(* Observers for C16: the last call started on a corrupt cache.json, and   *)
(* the same call on the cache these files were made from, with every       *)
(* section and entry a dictionary and every ID key a number.               *)
(***************************************************************************)
OnCorruptCache == last.pre \in {FileOf(cache) : cache \in Corrupt}

SoundBuild ==
  build_cache(FileOf(Populated), last.preferences, last.force, last.env, last.at)

SoundQuery ==
  query_cache(FileOf(Populated), call.keyword, last.preferences, call.search,
              host.utcoffset, last.at)

(***************************************************************************)
(* C16.  On a cache.json in which a section is not a dictionary, an entry  *)
(* is not a dictionary or an ID key is not a number, build_cache and       *)
(* query_cache return normally whenever the same call returns normally on  *)
(* the cache without the corruption.                                       *)
(***************************************************************************)
C16_CorruptCacheTolerated ==
  /\ (last.op = "build" /\ OnCorruptCache /\ ~SoundBuild.raised) => ~last.raised
  /\ (last.op = "query" /\ OnCorruptCache /\ ~SoundQuery.raised) => ~last.raised

(***************************************************************************)
(* Observers for C17: the last call repeated on a cache.json that exists   *)
(* and holds the empty dictionary.                                         *)
(***************************************************************************)
EmptyFile == FileOf(EmptyDicts)

OnEmptyBuild ==
  build_cache(EmptyFile, last.preferences, last.force, last.env, last.at)

OnEmptyQuery ==
  query_cache(EmptyFile, call.keyword, last.preferences, call.search, host.utcoffset,
              last.at)

OnEmptyExecute ==
  execute_action(EmptyFile, last.action, last.preferences, last.execute, last.env,
                 host.os_name, host.utcoffset, last.at)

(***************************************************************************)
(* C17.  When cache.json does not exist, build_cache, query_cache and      *)
(* execute_action of any action return normally whenever the same call     *)
(* returns normally on a cache.json that holds the empty dictionary.       *)
(***************************************************************************)
C17_MissingCacheTolerated ==
  last.pre = NoFile =>
    /\ (last.op = "build" /\ ~OnEmptyBuild.raised) => ~last.raised
    /\ (last.op = "query" /\ ~OnEmptyQuery.raised) => ~last.raised
    /\ (last.op = "execute" /\ ~OnEmptyExecute.raised) => ~last.raised

(***************************************************************************)
(* C19.  When a required preference is missing, build_cache and            *)
(* query_cache raise, cache.json is left as it was, build_cache runs       *)
(* neither the files pass nor the Steam API pass, and query_cache returns  *)
(* no item.                                                                *)
(***************************************************************************)
C19_MissingPreferenceAborts ==
  (last.op \in {"build", "query"} /\ ~check_required_preferences(last.preferences)) =>
    /\ last.raised
    /\ disk = last.pre
    /\ last.op = "build" =>
         /\ ~last.build.files_ran
         /\ ~last.build.steam_api_ran
         /\ last.build.owned = None
    /\ last.op = "query" => call.items = << >>

(***************************************************************************)
(* Witness of C19: a forced build_cache without a required preference, on  *)
(* a cache.json without an "extension" section, with a Steam folder to     *)
(* scan and a Steam API that answers.                                      *)
(***************************************************************************)
C19_ForcedBuildAborted ==
  /\ last.op = "build"
  /\ ~check_required_preferences(last.preferences)
  /\ last.force
  /\ last.pre = FileOf(Populated)
  /\ Len(last.env.steam_folders) >= 1
  /\ get_steamid64(last.env.api) # None
  /\ last.raised

(***************************************************************************)
(* C20.  On a cache.json whose sections and entries are well formed,       *)
(* query_cache with complete preferences returns a list of at least one    *)
(* item, in which the item no_results, of type action, stands alone; and   *)
(* execute_action of "no_results" returns normally and leaves cache.json   *)
(* as it was.                                                              *)
(***************************************************************************)
C20_NeverEmpty ==
  check_required_preferences(last.preferences) =>
    /\ (last.op = "query" /\ last.pre \in InitFiles) =>
         /\ ~last.raised
         /\ Len(call.items) >= 1
         /\ \A i \in 1..Len(call.items) :
              call.items[i].name = "no_results" =>
                call.items = <<ActionItem("no_results")>>
    /\ (last.op = "execute" /\ last.action = Act("no_results", "")) =>
         ~last.raised /\ disk = last.pre

(***************************************************************************)
(* Observers for C21 and the later claims on query_cache: the candidates   *)
(* of the last query, before the search filters them, and the words of     *)
(* its search.                                                             *)
(***************************************************************************)
ValidKeyword ==
  call.keyword \in {last.preferences.KEYWORD, last.preferences.KEYWORD_APPS,
                    last.preferences.KEYWORD_FRIENDS,
                    last.preferences.KEYWORD_NAVIGATIONS,
                    last.preferences.KEYWORD_EXTENSION}

QueryCandidates ==
  Candidates(load_cache(last.pre), IF ValidKeyword THEN call.keyword ELSE "",
             last.preferences, get_blacklist("app", last.preferences),
             get_blacklist("friend", last.preferences), host.utcoffset)

QuerySearch ==
  IF ValidKeyword /\ call.search # None THEN lower(strip(call.search[1])) ELSE << >>

QueryReturned == call.fn = "query" /\ ~call.raised

(***************************************************************************)
(* C21.  The list query_cache returns has at most MAX_ITEMS items, and at  *)
(* most 10 when MAX_ITEMS is not an integer or is not positive.            *)
(***************************************************************************)
C21_AtMostMaxItems ==
  QueryReturned =>
    Len(call.items) <= IF /\ last.preferences.MAX_ITEMS # None
                          /\ last.preferences.MAX_ITEMS[1] > 0
                       THEN last.preferences.MAX_ITEMS[1]
                       ELSE 10

(***************************************************************************)
(* Witness of C21: a query with MAX_ITEMS not positive that had more than  *)
(* 10 candidates and no search returned 10 items.                          *)
(***************************************************************************)
C21_TruncatedToDefault ==
  /\ QueryReturned
  /\ last.preferences.MAX_ITEMS = Some(0)
  /\ QuerySearch = << >>
  /\ Len(QueryCandidates.items) > 10
  /\ Len(call.items) = 10

(***************************************************************************)
(* Observers for C22: an item holds every word of the search, in its name  *)
(* or in its description, whatever the case of the letters; the            *)
(* candidates of the last query that do; and the maximum of items of the   *)
(* last query.                                                             *)
(***************************************************************************)
HoldsEveryWord(item, words) ==
  \A w \in 1..Len(words) :
    \/ find(lower(get_name(item)), lower(words[w])) # -1
    \/ find(lower(get_description(item)), lower(words[w])) # -1

Holding(items, words) == {i \in 1..Len(items) : HoldsEveryWord(items[i], words)}

MaxItems ==
  IF last.preferences.MAX_ITEMS # None /\ last.preferences.MAX_ITEMS[1] > 0
  THEN last.preferences.MAX_ITEMS[1]
  ELSE 10

SearchedFor(items, candidates, words) ==
  IF Holding(candidates, words) = {}
  THEN items = <<ActionItem("no_results")>>
  ELSE /\ \A i \in 1..Len(items) : HoldsEveryWord(items[i], words)
       /\ \A i \in 1..Len(items) : \E k \in 1..Len(candidates) : items[i] = candidates[k]
       /\ \A i, j \in 1..Len(items) : items[i] = items[j] => i = j
       /\ Len(items) = Min(MaxItems, Cardinality(Holding(candidates, words)))

(***************************************************************************)
(* C22.  With a search that is not empty, the items query_cache returns    *)
(* are candidates that hold every word of the search in their name or      *)
(* description, case-insensitively, and but for the maximum of items       *)
(* every such candidate is returned.                                       *)
(***************************************************************************)
C22_KeptIffEveryWord ==
  (QueryReturned /\ QuerySearch # << >>) =>
    SearchedFor(call.items, QueryCandidates.items, split(strip(call.search[1])))

(***************************************************************************)
(* Witness of C22: a search of two words returned every candidate that     *)
(* holds both and dropped a candidate that holds only the second.          *)
(***************************************************************************)
C22_TwoWordsFiltered ==
  /\ QueryReturned
  /\ QuerySearch # << >>
  /\ Len(split(QuerySearch)) = 2
  /\ Holding(QueryCandidates.items, split(QuerySearch)) # {}
  /\ Len(call.items) = Cardinality(Holding(QueryCandidates.items, split(QuerySearch)))
  /\ \E k \in 1..Len(QueryCandidates.items) :
       /\ ~HoldsEveryWord(QueryCandidates.items[k], split(QuerySearch))
       /\ HoldsEveryWord(QueryCandidates.items[k], <<split(QuerySearch)[2]>>)

(***************************************************************************)
(* C23.  With an empty search, of two apps in the list query_cache         *)
(* returns that have the same last launch and the same number of           *)
(* launches, the one whose lowercased name is first in the alphabet comes  *)
(* first.                                                                  *)
(***************************************************************************)
C23_TiesOrderedByName ==
  (QueryReturned /\ QuerySearch = << >>) =>
    \A i, j \in 1..Len(call.items) :
      ( /\ i < j
        /\ call.items[i].type = "app"
        /\ call.items[j].type = "app"
        /\ call.items[i].launched = call.items[j].launched
        /\ call.items[i].times = call.items[j].times )
      => ~StrLess(lower(call.items[j].chars), lower(call.items[i].chars))

(***************************************************************************)
(* Observers for C24 and C25: the metrics get_item_metrics gives an item   *)
(* of the last query, with the latest launch and the most launches of the  *)
(* candidates as query_cache passes them, and two items whose metrics are  *)
(* equal but for the one of index k in ITEM_METRIC_MULTS.                  *)
(***************************************************************************)
QueryLatestLaunch(all) ==
  IF \E i \in 1..Len(all) : all[i].launched # None
  THEN Some(Max({all[i].launched[1] : i \in {j \in 1..Len(all) : all[j].launched # None}}))
  ELSE None

QueryMetrics(item, all) ==
  get_item_metrics(item, split(QuerySearch), QueryLatestLaunch(all),
                   Max({0} \cup {all[i].times : i \in 1..Len(all)}), last.at).m

EqualButFor(m, n, k) == \A c \in (1..Len(ITEM_METRIC_MULTS)) \ {k} : m[c] = n[c]

LaunchedIndex == CHOOSE k \in 1..Len(ITEM_METRIC_MULTS) : ITEM_METRIC_MULTS[k].key = "launched"

TimesIndex == CHOOSE k \in 1..Len(ITEM_METRIC_MULTS) : ITEM_METRIC_MULTS[k].key = "times"

(***************************************************************************)
(* C24.  With a search that is not empty, of two returned items whose      *)
(* metrics are equal but for the number of launches, the one launched      *)
(* more times does not come after the one launched fewer times.            *)
(***************************************************************************)
C24_MoreLaunchesRankNoLower ==
  (QueryReturned /\ QuerySearch # << >>) =>
    \A i, j \in 1..Len(call.items) :
      ( /\ i < j
        /\ call.items[i].type # "action"
        /\ call.items[j].type # "action"
        /\ EqualButFor(QueryMetrics(call.items[i], QueryCandidates.items),
                       QueryMetrics(call.items[j], QueryCandidates.items), TimesIndex) )
      => call.items[i].times >= call.items[j].times

(***************************************************************************)
(* C25.  With a search that is not empty, of two returned items whose      *)
(* metrics are equal but for the recency of the last launch, the one       *)
(* launched more recently does not come after the other, and one that was  *)
(* launched does not come after one that never was.                        *)
(***************************************************************************)
C25_RecentRankNoLower ==
  (QueryReturned /\ QuerySearch # << >>) =>
    \A i, j \in 1..Len(call.items) :
      ( /\ i < j
        /\ call.items[i].type # "action"
        /\ call.items[j].type # "action"
        /\ EqualButFor(QueryMetrics(call.items[i], QueryCandidates.items),
                       QueryMetrics(call.items[j], QueryCandidates.items), LaunchedIndex) )
      => /\ call.items[j].launched # None => call.items[i].launched # None
         /\ (call.items[i].launched # None /\ call.items[j].launched # None) =>
              call.items[i].launched[1] >= call.items[j].launched[1]

(***************************************************************************)
(* Observers for C26: the number of items one navigation template yields   *)
(* for one key in a returned list from which nothing was filtered or       *)
(* truncated, and the cached entities a template depends on.               *)
(***************************************************************************)
WholeList ==
  QueryReturned /\ QuerySearch = << >> /\ Len(call.items) = Len(QueryCandidates.items)

Yielded(id_name) ==
  Cardinality({i \in 1..Len(call.items) :
                 call.items[i].type = "nav" /\ call.items[i].name = id_name})

CachedIn(sec) ==
  IF HasSection(load_cache(last.pre), sec) THEN load_cache(last.pre).d[sec].d ELSE << >>

Admitted(nav) ==
  CASE nav.modifier = "%a" ->
         /\ call.keyword \in {last.preferences.KEYWORD, last.preferences.KEYWORD_APPS}
         /\ last.preferences.SHOW_DEPENDENT \in {"all", "onlyApps"}
    [] nav.modifier = "%f" ->
         /\ call.keyword \in {last.preferences.KEYWORD, last.preferences.KEYWORD_FRIENDS}
         /\ last.preferences.SHOW_DEPENDENT \in {"all", "onlyFriends"}
    [] OTHER ->
         call.keyword \in {last.preferences.KEYWORD, last.preferences.KEYWORD_NAVIGATIONS}

DependsOn(nav) ==
  IF nav.modifier = "%a"
  THEN {key \in DOMAIN CachedIn("apps") :
          KeyInt[key] \notin get_blacklist("app", last.preferences)}
  ELSE {key \in DOMAIN CachedIn("friends") :
          KeyInt[key] \notin get_blacklist("friend", last.preferences)}

Shown(nav) ==
  IF nav.modifier = "%a" /\ last.preferences.SHOW_UNINSTALLED = "false"
  THEN {key \in DependsOn(nav) : {"location", "size"} \cap DOMAIN CachedIn("apps")[key] # {}}
  ELSE DependsOn(nav)

ExpandedOver(entities) ==
  \A n \in 1..Len(STEAM_NAVIGATIONS) :
    LET nav == STEAM_NAVIGATIONS[n]
    IN IF nav.modifier = ""
       THEN Yielded(nav.head) = IF Admitted(nav) THEN 1 ELSE 0
       ELSE \A key \in DOMAIN KeyInt :
              Yielded(nav.head \o key) =
                IF Admitted(nav) /\ key \in entities[n] THEN 1 ELSE 0

RECURSIVE OpenAfter(_, _)
OpenAfter(manifest, n) ==
  IF n = 0
  THEN << >>
  ELSE LET open == OpenAfter(manifest, n - 1)
       IN CASE manifest[n].kind = "block" -> Append(open, manifest[n].key)
            [] manifest[n].kind = "close" -> SubSeq(open, 1, Len(open) - 1)
            [] OTHER -> open

TopLevelKeys(manifest) ==
  {n \in 1..Len(manifest) : manifest[n].kind = "block" /\ OpenAfter(manifest, n - 1) = << >>}

Unopened(manifest, kind) ==
  {n \in 1..Len(manifest) : manifest[n].kind = kind /\ OpenAfter(manifest, n - 1) = << >>}

WellFormed(manifest) ==
  /\ Cardinality(TopLevelKeys(manifest)) = 1
  /\ Unopened(manifest, "pair") = {}
  /\ Unopened(manifest, "close") = {}
  /\ OpenAfter(manifest, Len(manifest)) = << >>

RECURSIVE TreeAt(_, _)
TreeAt(tree, path) ==
  IF Head(path) \notin DOMAIN tree
  THEN None
  ELSE IF Len(path) = 1
       THEN Some(tree[Head(path)])
       ELSE IF "block" \in DOMAIN tree[Head(path)]
            THEN TreeAt(tree[Head(path)].block, Tail(path))
            ELSE None

DepthAfter(manifest, n) ==
  Len(VdfLoop(VdfStart, ManifestLines(manifest), 1, n).vdf_levels)

KindsBefore(manifest, n, kind) ==
  Cardinality({i \in 1..n : WrittenFrom(manifest, 1)[i].kind = kind})

VdfParsed == call.fn = "_vdf_to_dict"

(***************************************************************************)
(* C27.  For a well-formed manifest _vdf_to_dict returns a tree in which   *)
(* every key/value line is a leaf, with its value, at the path of the      *)
(* blocks open at that line and every block key holds a nested mapping,    *)
(* and the depth of the stack after each line is the number of blocks      *)
(* opened less the number closed.                                          *)
(***************************************************************************)
C27_TreeOfManifest ==
  (VdfParsed /\ WellFormed(call.manifest)) =>
    /\ call.result.raised = ""
    /\ \A n \in 1..Len(call.manifest) :
         LET entry == call.manifest[n]
             at == TreeAt(call.result.tree[1], OpenAfter(call.manifest, n - 1) \o <<entry.key>>)
         IN /\ entry.kind = "pair" => at = Some(Leaf(entry.value))
            /\ entry.kind = "block" => (at # None /\ "block" \in DOMAIN at[1])
    /\ \A n \in 0..Len(ManifestLines(call.manifest)) :
         DepthAfter(call.manifest, n)
           = KindsBefore(call.manifest, n, "key") - KindsBefore(call.manifest, n, "close")

(***************************************************************************)
(* C28.  _vdf_to_dict raises and returns no tree when a second top-level   *)
(* key appears, when a key/value line appears while no block is open, and  *)
(* when a closing brace appears while no block is open.                    *)
(***************************************************************************)
C28_ParseErrors ==
  ( /\ VdfParsed
    /\ \/ Cardinality(TopLevelKeys(call.manifest)) > 1
       \/ Unopened(call.manifest, "pair") # {}
       \/ Unopened(call.manifest, "close") # {} )
  => (call.result.raised # "" /\ call.result.tree = None)

(***************************************************************************)
(* Witness of C28: a manifest whose only fault is a closing brace too      *)
(* many after its one block, refused with ValueError.                      *)
(***************************************************************************)
C28_ExtraBraceRefused ==
  /\ VdfParsed
  /\ Cardinality(TopLevelKeys(call.manifest)) = 1
  /\ Unopened(call.manifest, "pair") = {}
  /\ Unopened(call.manifest, "close") # {}
  /\ call.result.raised = "ValueError"
  /\ call.result.tree = None

(***************************************************************************)
(* C29.  For a well-formed shortcut file whose shortcuts have distinct     *)
(* app IDs, get_non_steam_apps returns one record for each app ID that is  *)
(* not blacklisted, under that app ID, and a shortcut whose executable     *)
(* does not exist is among them with no path.                              *)
(***************************************************************************)
ShortcutsRead == call.fn = "get_non_steam_apps"

C29_OneRecordPerShortcut ==
  (ShortcutsRead /\ call.file.kind = "blob") =>
    /\ ~call.result.raised
    /\ DOMAIN call.result.apps
         = {GameId(call.file.records[n].appid) : n \in 1..Len(call.file.records)}
             \ call.app_blacklist
    /\ \A n \in 1..Len(call.file.records) :
         LET record == call.file.records[n]
         IN (GameId(record.appid) \notin call.app_blacklist
               /\ Stripped(record.exe) \notin DOMAIN HostFiles)
            => \E field \in 1..Len(call.result.apps[GameId(record.appid)]) :
                  /\ call.result.apps[GameId(record.appid)][field].k = "exe"
                  /\ call.result.apps[GameId(record.appid)][field].v = None

(***************************************************************************)
(* C30.  When the shortcut file is empty or its first 11 bytes are not     *)
(* the header, get_non_steam_apps returns no record and does not raise,    *)
(* whatever follows the header.                                            *)
(***************************************************************************)
C30_ForeignFileIsEmpty ==
  (ShortcutsRead /\ call.file.kind \in {"empty", "foreign"}) =>
    (~call.result.raised /\ call.result.apps = EmptyDict)

(***************************************************************************)
(* Observers for C31: the sum of the durations of the tokens with a known  *)
(* unit, normalised as timedelta does, and the tokens with an unknown      *)
(* unit.                                                                   *)
(***************************************************************************)
RECURSIVE SumOf(_, _)
SumOf(tokens, i) ==
  IF i > Len(tokens)
  THEN Duration(0, 0, 0)
  ELSE LET rest == SumOf(tokens, i + 1)
           micro == tokens[i].is.microseconds + rest.microseconds
           secs == tokens[i].is.seconds + rest.seconds + micro \div 1000000
       IN Duration(tokens[i].is.days + rest.days + secs \div 86400, secs % 86400,
                   micro % 1000000)

UnknownUnits(tokens) == {i \in 1..Len(tokens) : ~tokens[i].known}

DurationRead == call.fn = "str_to_timedelta"

(***************************************************************************)
(* C31.  str_to_timedelta returns the sum of the tokens with a known       *)
(* unit, zero for the empty string, and for each token with an unknown     *)
(* unit it adds nothing and logs a warning.                                *)
(***************************************************************************)
C31_SumAndWarnings ==
  DurationRead =>
    /\ call.result.delta = SumOf(call.tokens, 1)
    /\ call.result.warnings = Cardinality(UnknownUnits(call.tokens))

(***************************************************************************)
(* C32.  _get_response_from_steam_api ends in exactly one of four          *)
(* outcomes a caller can tell apart: the invalid key for the Unauthorized  *)
(* page, the invalid parameters for the Bad Request page, the unknown      *)
(* error for any other body that is not JSON, and the decoded value for    *)
(* JSON.                                                                   *)
(***************************************************************************)
ResponseRead == call.fn = "_get_response_from_steam_api"

InvalidKey(result) ==
  result.raised = "ValueError" /\ result.message = "Steam API key is invalid"

InvalidParameters(result) ==
  result.raised = "ValueError" /\ result.message = "Parameters sent to Steam API are invalid"

UnknownError(result) == result.raised = "ConnectionError"

Decoded32(result) == result.raised = "" /\ result.value # None

C32_FourOutcomes ==
  ResponseRead =>
    /\ call.response = UnauthorizedPage => InvalidKey(call.result)
    /\ call.response = BadRequestPage => InvalidParameters(call.result)
    /\ call.response \notin {UnauthorizedPage, BadRequestPage} =>
         (UnknownError(call.result) \/ Decoded32(call.result))

(***************************************************************************)
(* The location index, cache["countries"]: a dictionary of countries, each *)
(* a dictionary of states, each a dictionary with the state's "name" and   *)
(* the names of its cities under their IDs.  The Steam community site      *)
(* knows two countries; its requests succeed.                              *)
(***************************************************************************)
Update(f, g) == [x \in (DOMAIN f) \cup (DOMAIN g) |-> IF x \in DOMAIN g THEN g[x] ELSE f[x]]

StateNames ==
  ("US" :> (("CA" :> "California") @@ ("NY" :> "New York")))
  @@ ("DE" :> ("BE" :> "Berlin"))

CityNames ==
  ("CA" :> ("1" :> "Los Angeles")) @@ ("NY" :> ("2" :> "New York City"))
  @@ ("BE" :> ("3" :> "Berlin"))

(***************************************************************************)
(* get.py, get_state_or_city_codes, lines 502-534: the names of the states *)
(* of a country, or of the cities of a state, by code; the city IDs as     *)
(* strings (line 527).                                                     *)
(***************************************************************************)
get_state_or_city_codes(country_code, state_code) ==
  IF state_code = None
  THEN (IF country_code \in DOMAIN StateNames THEN StateNames[country_code] ELSE EmptyDict)
  ELSE (IF state_code[1] \in DOMAIN CityNames THEN CityNames[state_code[1]] ELSE EmptyDict)

(***************************************************************************)
(* cache.py, build_cache, lines 634-664: the loop over the friends' info   *)
(* that collects city_names_to_download, a dictionary from country codes   *)
(* to lists of state codes.  The test of line 654 reads                    *)
(* city_names_to_download[country_code] before line 657 makes sure the     *)
(* key is there: KeyError when it is not.                                  *)
(***************************************************************************)
LocationStep(st, info) ==
  IF info.country_code = None \/ info.state_code = None
  THEN st
  ELSE LET country == info.country_code[1]
           state == info.state_code[1]
           to_download ==
             IF country \notin DOMAIN st.countries
                  /\ country \notin DOMAIN st.city_names_to_download
             THEN Put(st.city_names_to_download, country, << >>)
             ELSE st.city_names_to_download
           countries ==
             IF country \in DOMAIN st.countries
             THEN st.countries
             ELSE Put(st.countries, country, EmptyDict)
           ensured == [st EXCEPT !.countries = countries,
                                 !.city_names_to_download = to_download]
       IN IF info.city_code = None
          THEN ensured
          ELSE IF state \in DOMAIN countries[country]
               THEN ensured
               ELSE IF country \notin DOMAIN to_download
                    THEN [ensured EXCEPT !.raised = TRUE]
                    ELSE IF \E i \in 1..Len(to_download[country]) :
                              to_download[country][i] = state
                         THEN ensured
                         ELSE [ensured EXCEPT !.city_names_to_download =
                                 Put(to_download, country,
                                     Append(to_download[country], state))]

RECURSIVE LocationLoop(_, _, _)
LocationLoop(st, infos, i) ==
  IF st.raised \/ i > Len(infos)
  THEN st
  ELSE LocationLoop(LocationStep(st, infos[i]), infos, i + 1)

(***************************************************************************)
(* cache.py, build_cache, lines 665-675: the requests.  The names of all   *)
(* the states of a country are stored, then the cities of the states       *)
(* listed for the country; a stored city sets from_steam_api_updated.      *)
(***************************************************************************)
StoreStates(entry, state_names) ==
  [state \in (DOMAIN entry) \cup (DOMAIN state_names) |->
     IF state \in DOMAIN state_names
     THEN Put(IF state \in DOMAIN entry THEN entry[state] ELSE EmptyDict, "name",
              state_names[state])
     ELSE entry[state]]

RECURSIVE StoreCities(_, _, _, _)
StoreCities(st, country, states, i) ==
  IF st.raised \/ i > Len(states)
  THEN st
  ELSE IF states[i] \notin DOMAIN st.entry
       THEN [st EXCEPT !.raised = TRUE]
       ELSE StoreCities([st EXCEPT !.entry[states[i]] =
                           Update(st.entry[states[i]],
                                  get_state_or_city_codes(country, Some(states[i]))),
                                   !.updated =
                           st.updated
                             \/ get_state_or_city_codes(country, Some(states[i])) # EmptyDict],
                        country, states, i + 1)

RECURSIVE Download(_, _)
Download(st, pending) ==
  IF st.raised \/ pending = {}
  THEN st
  ELSE LET country == CHOOSE c \in pending : TRUE
           stored == StoreCities([entry |-> StoreStates(st.countries[country],
                                                        get_state_or_city_codes(country, None)),
                                  updated |-> st.from_steam_api_updated,
                                  raised |-> FALSE],
                                 country, st.city_names_to_download[country], 1)
       IN Download([st EXCEPT !.countries = Put(st.countries, country, stored.entry),
                              !.from_steam_api_updated = stored.updated,
                              !.raised = stored.raised],
                   pending \ {country})

(***************************************************************************)
(* cache.py, build_cache, lines 632-679: the location part of a Steam API  *)
(* refresh on the index of cache.json.  The result is the index in         *)
(* memory, the one line 678 saves when a city was stored, and whether the  *)
(* build raised.  The only later save_cache, line 712, follows a return    *)
(* of merge_dictionaries.                                                  *)
(***************************************************************************)
LocationPass(countries, steam_friends_info) ==
  LET scanned == LocationLoop([countries |-> countries, city_names_to_download |-> EmptyDict,
                               from_steam_api_updated |-> FALSE, raised |-> FALSE],
                              steam_friends_info, 1)
      done == Download(scanned, DOMAIN scanned.city_names_to_download)
  IN [index |-> done.countries, raised |-> done.raised,
      saved |-> IF done.from_steam_api_updated /\ ~done.raised
                THEN done.countries
                ELSE countries]

(***************************************************************************)
(* The refreshes: the friends' info of a refresh is a list of at most      *)
(* MaxFriends friends, each with a country, state and city, without a      *)
(* city, or without a location.  The index starts empty and is the saved   *)
(* one from refresh to refresh.                                            *)
(***************************************************************************)
MaxFriends == 2

MaxRefreshes == 2

Place(country, state, city) ==
  [country_code |-> country, state_code |-> state, city_code |-> city]

Places ==
  { Place(Some("US"), Some("CA"), Some("1")), Place(Some("US"), Some("NY"), Some("2")),
    Place(Some("US"), Some("CA"), None), Place(Some("DE"), Some("BE"), Some("3")),
    Place(None, None, None) }

FriendInfos == UNION { [1..n -> Places] : n \in 0..MaxFriends }

InitLocations ==
  /\ disk = NoFile
  /\ host \in Hosts
  /\ now = StartTime
  /\ last = NoLast
  /\ call = [fn |-> "locations", countries |-> EmptyDict, info |-> << >>,
             index |-> EmptyDict, raised |-> FALSE, refreshes |-> 0]

LocationsRefreshed(pass, steam_friends_info) ==
  call' = [fn |-> "locations", countries |-> pass.saved, info |-> steam_friends_info,
           index |-> pass.index, raised |-> pass.raised,
           refreshes |-> call.refreshes + 1]

RefreshLocations ==
  /\ call.refreshes < MaxRefreshes
  /\ \E steam_friends_info \in FriendInfos :
       LocationsRefreshed(LocationPass(call.countries, steam_friends_info),
                          steam_friends_info)
  /\ UNCHANGED <<disk, host, now, last>>

NextLocations == RefreshLocations

SpecLocations == InitLocations /\ [][NextLocations]_vars

(***************************************************************************)
(* Launches followed by queries: cache.json holds one installed app, one   *)
(* non-Steam app, one friend and one navigation, none of them launched     *)
(* yet; execute_action and query_cache are called in any order, one call   *)
(* per tick up to LaunchEnd, so that a query falls in the tick after a     *)
(* launch (less than a day later) or two ticks after it (a day later).     *)
(***************************************************************************)
Unlaunched(sec) == [sec EXCEPT !.d = [key \in DOMAIN sec.d |-> Del(sec.d[key], "launched")]]

Fresh == [Populated EXCEPT !.d = [sec \in DOMAIN Populated.d |-> Unlaunched(Populated.d[sec])]]

LaunchEnd == MaxTime + 1

LaunchActions == {Act("APP", "1"), Act("APP", "3"), Act("FRIEND", "7"), Act("s:", "exit")}

LaunchSearches == {Some(<<"G", "a", "m", "e">>), Some(<<"7">>), Some(<<"e", "x">>)}

InitLaunch ==
  /\ disk = FileOf(Fresh)
  /\ host \in Hosts
  /\ now = StartTime
  /\ last = NoLast
  /\ call = NoCall

LaunchItem ==
  /\ now < LaunchEnd
  /\ \E action \in LaunchActions, execute \in BOOLEAN :
       ExecuteActionCalled(execute_action(disk, action, Prefs(Long, Huge, {}), execute,
                                          NoEnv, host.os_name, host.utcoffset, now),
                           action, Prefs(Long, Huge, {}), execute, NoEnv)
  /\ now' = now + 1
  /\ UNCHANGED <<host, call>>

QueryLaunched ==
  /\ now < LaunchEnd
  /\ \E search \in LaunchSearches :
       QueryCacheCalled(query_cache(disk, "s", Prefs(Long, Huge, {}), search,
                                    host.utcoffset, now),
                        "s", Prefs(Long, Huge, {}), search)
  /\ now' = now + 1
  /\ UNCHANGED <<disk, host>>

NextLaunch == LaunchItem \/ QueryLaunched

SpecLaunch == InitLaunch /\ [][NextLaunch]_vars

(***************************************************************************)
(* The loop of get_non_steam_apps one iteration at a time (get.py lines    *)
(* 205-269): the buffer of a shortcut file, or a buffer that ends inside   *)
(* a tag's value, and the state of the loop after each iteration with the  *)
(* cursor the iteration started from.  An iteration that raises ends the   *)
(* loop.                                                                   *)
(***************************************************************************)
TruncatedRests ==
  { AppIdTag, ShortcutTag(0) \o AppIdTag \o <<1>>, ShortcutTag(0) \o AppNameTag \o <<71>>,
    ShortcutTag(0) \o ExeTag, ShortcutTag(0) \o LastPlayTimeTag \o <<1, 0>> }

ScanBuffers ==
  {file.buffer : file \in ShortcutFiles}
    \cup {ForeignHeader \o rest : rest \in TruncatedRests}

InitScan ==
  /\ disk = NoFile
  /\ host \in Hosts
  /\ now = StartTime
  /\ last = NoLast
  /\ call \in {[fn |-> "scan", buffer |-> buffer, st |-> ScanStart, from |-> None] :
                 buffer \in ScanBuffers}

ScanIteration ==
  /\ call.fn = "scan"
  /\ ~call.st.raised
  /\ call.st.cursor < Len(call.buffer)
  /\ call' = [call EXCEPT !.st = ScanStep(call.buffer, call.st, host.os_name, HostFiles),
                          !.from = Some(call.st.cursor)]
  /\ UNCHANGED <<disk, host, now, last>>

NextScan == ScanIteration

SpecScan == InitScan /\ [][NextScan]_vars /\ WF_vars(ScanIteration)

(***************************************************************************)
(* C33.  With a search that is not empty, get_item_metrics divides by      *)
(* zero for no item, so that the query returns, and every metric of every  *)
(* item that passed the filter lies in [0, 1].                             *)
(***************************************************************************)
InUnit(metric) == ~FracLess(metric, Zero) /\ ~FracLess(One, metric)

C33_MetricsInUnit ==
  (call.fn = "query" /\ QuerySearch # << >>) =>
    /\ ~call.raised
    /\ \A i \in 1..Len(call.items) :
         (\E k \in 1..Len(QueryCandidates.items) : QueryCandidates.items[k] = call.items[i])
         => \A c \in 1..Len(ITEM_METRIC_MULTS) :
              InUnit(QueryMetrics(call.items[i], QueryCandidates.items)[c])

(***************************************************************************)
(* Observers for C34: the refresh timestamp of a category as an optional   *)
(* value, whether the last build_cache call changed it, and whether a      *)
(* collector of the category returned in that call.  The steamID64 is      *)
(* requested only when the cached id and username do not serve (cache.py   *)
(* lines 538-542); the requests of ApiEmpty and ApiDown return nothing.    *)
(***************************************************************************)
StampOf(file, key) == IF ValidStamp(file, key) THEN Some(Stamp(file, key)) ELSE None

Moved(key) == last.op = "build" /\ StampOf(disk, key) # StampOf(last.pre, key)

IdCached ==
  /\ last.pre.exists
  /\ "extension" \in DOMAIN last.pre.c.d
  /\ {"id", "username"} \subseteq DOMAIN last.pre.c.d["extension"]
  /\ last.pre.c.d["extension"]["username"] = last.preferences.STEAM_USERNAME

CollectorReturned(key) ==
  IF key = "files"
  THEN \E i \in 1..Len(last.env.steam_folders) :
         \/ i = 1 /\ last.env.steam_folders[i].shortcuts = "ok"
         \/ last.env.steam_folders[i].scan = "ok"
  ELSE \/ ~IdCached /\ last.env.api.steamid # None
       \/ last.env.api.owned # EmptyDict
       \/ last.env.api.friends # EmptyDict
       \/ last.env.api.info # EmptyDict

(***************************************************************************)
(* C34.  The timestamp of a category in cache.json is changed only by a    *)
(* build_cache call that ran the category's pass and in which a collector  *)
(* of the category returned: a call in which every collector of the        *)
(* category failed leaves the timestamp as it was.                         *)
(***************************************************************************)
C34_StampOnlyOnSuccess ==
  \A key \in Categories : Moved(key) => (Ran(key) /\ CollectorReturned(key))

(***************************************************************************)
(* Observers for C35: what execute_action does with the action string of   *)
(* an item on the cache file and the host of the query, and the section    *)
(* and key of the record the item was built from.                          *)
(***************************************************************************)
Executed(item, execute) ==
  Resolve(load_cache(disk), get_action(item), last.preferences, execute, host.os_name)

Accepted(r) == ~r.raised /\ r.go \in {"count", "clear", "rebuild"}

SectionOf(item) ==
  CASE item.type = "app" -> IF item.non_steam THEN "nonSteam" ELSE "apps"
    [] item.type = "friend" -> "friends"
    [] OTHER -> "navs"

KeyOf(item) == IF item.type \in {"app", "friend"} THEN StrOf(item.id[1]) ELSE item.name

Offered(item) == item.name # "no_results"

(***************************************************************************)
(* C35.  The action string of every item query_cache returns (app,         *)
(* non-Steam app, friend, navigation, extension action) is accepted by     *)
(* execute_action, and the record whose launch it counts is the one the    *)
(* item was built from; for a navigation that record is under the key      *)
(* whose statistics the item carries.                                      *)
(***************************************************************************)
C35_ActionsResolve ==
  (call.fn = "query" /\ ~call.raised) =>
    \A i \in 1..Len(call.items) : \A execute \in BOOLEAN :
      Offered(call.items[i]) =>
        /\ Accepted(Executed(call.items[i], execute))
        /\ Executed(call.items[i], execute).go = "count" =>
             /\ Executed(call.items[i], execute).sec = SectionOf(call.items[i])
             /\ Executed(call.items[i], execute).key = KeyOf(call.items[i])
             /\ call.items[i].type = "nav" =>
                  get_launches(Executed(call.items[i], execute).cache.d["navs"].d[KeyOf(call.items[i])], host.utcoffset)
                    = [launched |-> call.items[i].launched, times |-> call.items[i].times]

(***************************************************************************)
(* Observers for C36: the index holds the name of a friend's state and of  *)
(* the friend's city.                                                      *)
(***************************************************************************)
Located36(info) ==
  info.country_code # None /\ info.state_code # None /\ info.city_code # None

Named(index, info) ==
  /\ info.country_code[1] \in DOMAIN index
  /\ info.state_code[1] \in DOMAIN index[info.country_code[1]]
  /\ {"name", info.city_code[1]}
       \subseteq DOMAIN index[info.country_code[1]][info.state_code[1]]

(***************************************************************************)
(* C36.  After each API refresh of a sequence whose location requests      *)
(* succeed, the refresh has not raised and the location index holds the    *)
(* state name and the city name of every friend that has a country, a      *)
(* state and a city code, whatever earlier refreshes put in the index.     *)
(***************************************************************************)
C36_IndexHoldsNames ==
  (call.fn = "locations" /\ call.refreshes >= 1) =>
    /\ ~call.raised
    /\ \A i \in 1..Len(call.info) :
         Located36(call.info[i]) => Named(call.index, call.info[i])

(***************************************************************************)
(* C37.  Once execute_action has recorded the first launch of an item, a   *)
(* query_cache call with a search that matches the item returns normally   *)
(* and the item is in the list, whenever the call is made.  The cache      *)
(* starts without launches, so an item with one launch is one whose first  *)
(* launch execute_action has recorded.                                     *)
(***************************************************************************)
FirstLaunched(item) == item.launched # None /\ item.times = 1

C37_LaunchedItemIsFound ==
  (last.op = "query" /\ call.fn = "query" /\ QuerySearch # << >>) =>
    \A k \in 1..Len(QueryCandidates.items) :
      (FirstLaunched(QueryCandidates.items[k])
         /\ Matches(QueryCandidates.items[k], split(QuerySearch))) =>
        /\ ~call.raised
        /\ \E i \in 1..Len(call.items) : call.items[i] = QueryCandidates.items[k]

(***************************************************************************)
(* enter.py, execute_action, lines 56-59, 68-78 and 80-93: whether the     *)
(* call reaches a SubprocessPopen.  The process of an app or a friend is   *)
(* started after the record was found, that of a navigation after the      *)
(* command was built, each only when execute is set.                       *)
(***************************************************************************)
Found(cache, sec, key) ==
  sec \notin cache.bad /\ sec \in DOMAIN cache.d /\ key \in Keys(cache.d[sec])

SubprocessPopen(cache, action, preferences, execute, os_name) ==
  CASE action.s = "APP" ->
         /\ execute
         /\ IsNumeric(action.arg)
         /\ "apps" \notin cache.bad
         /\ Found(cache, "apps", action.arg) \/ Found(cache, "nonSteam", action.arg)
    [] action.s = "FRIEND" ->
         /\ execute
         /\ IsNumeric(action.arg)
         /\ Found(cache, "friends", action.arg)
         /\ preferences.FRIEND_ACTION \in {"chat", "profile"}
    [] action.s = "s:" -> execute
    [] action.s = "w:" -> execute /\ os_name = "nt"
    [] OTHER -> FALSE

(***************************************************************************)
(* Observers for C38: the last call was execute_action with an action      *)
(* that names an app or a friend whose ID is in no section of cache.json,  *)
(* with a string that is no action, or with no_results or error.           *)
(***************************************************************************)
UnknownId ==
  /\ IsNumeric(last.action.arg)
  /\ \/ /\ last.action.s = "APP"
        /\ ~Found(load_cache(last.pre), "apps", last.action.arg)
        /\ ~Found(load_cache(last.pre), "nonSteam", last.action.arg)
     \/ /\ last.action.s = "FRIEND"
        /\ ~Found(load_cache(last.pre), "friends", last.action.arg)

Unrecognised ==
  last.action.s \notin {"APP", "FRIEND", "s:", "w:", "update_cache", "clear_cache",
                        "clear_images", "rebuild_cache", "no_results", "error"}

Refused ==
  /\ last.op = "execute"
  /\ UnknownId \/ Unrecognised \/ last.action.s \in {"no_results", "error"}

(***************************************************************************)
(* C38.  execute_action leaves cache.json as it was, starts no process     *)
(* and runs no build when the action names an app ID or a friend ID that   *)
(* is not in the cache, when the string is not an action, and when the     *)
(* action is no_results or error.                                          *)
(***************************************************************************)
C38_RefusedActionDoesNothing ==
  Refused =>
    /\ disk = last.pre
    /\ ~last.counted
    /\ ~last.built
    /\ ~SubprocessPopen(load_cache(last.pre), last.action, last.preferences,
                        last.execute, host.os_name)

(* An unknown app ID was executed on a cache file that holds other apps.   *)
C38_UnknownAppRefused ==
  /\ Refused
  /\ last.execute
  /\ last.action = Act("APP", "2")
  /\ last.pre.exists
  /\ Found(load_cache(last.pre), "apps", "1")
  /\ ~last.raised

(***************************************************************************)
(* C39.  After a files refresh over two or more Steam folders, every app   *)
(* the scan found installed in one of the folders has its "size" in        *)
(* cache.json.                                                             *)
(***************************************************************************)
C39_InstalledKeepSize ==
  (WellFormedCall /\ last.build.files_ran /\ Len(last.env.steam_folders) >= 2) =>
    \A id \in InstalledScan :
      /\ HasItem(disk, "apps", StrOf(id))
      /\ "size" \in DOMAIN Item(disk, "apps", StrOf(id))

(***************************************************************************)
(* Observers for C40: the loop has ended, and the tags an iteration        *)
(* matched at most: an iteration moves the cursor by one byte when no tag  *)
(* matched and by at least the three bytes of the shortest tag when one    *)
(* did.                                                                    *)
(***************************************************************************)
ScanEnded == call.fn = "scan" /\ (call.st.raised \/ call.st.cursor >= Len(call.buffer))

Advanced(from, st) ==
  \/ st.raised
  \/ /\ st.cursor > from
     /\ ~st.cursor_moved => st.cursor = from + 1
     /\ st.cursor_moved => st.cursor >= from + Len(ShortcutTag(0))

Iterated == call.fn = "scan" /\ call.from # None

====
